---- MODULE Spec2Model ----
(***************************************************************************)
(* A model of the Husk compiler front end (ikurotime/c_compiler):          *)
(*   - the registry-based Lexer            (src/src/lexer.hpp, tokens.hpp) *)
(*   - the recursive-descent Parser        (src/src/ast.hpp)               *)
(*   - the AST-to-IR lowering pass CodeGen (src/src/codegen.hpp)           *)
(*                                                                         *)
(* Conventions.  A C++ string is a sequence of one-character strings.  An  *)
(* optional<T> is a sequence of length 0 (nullopt) or 1.  C++ indices are  *)
(* 0-based: At(s, i) reads s[i].  An llvm::Expected<T> is a record with a  *)
(* field ok and either the value or the error.                             *)
(***************************************************************************)
EXTENDS Naturals, Integers, Sequences, FiniteSets, TLC

VARIABLES
  \* ---- Lexer (lexer.hpp): the members and the locals of tokenize()
  m_src,        \* Lexer::m_src
  index,        \* tokenize(): size_t index
  line,         \* tokenize(): size_t line
  column,       \* tokenize(): size_t column
  tokens,       \* tokenize(): vector<Token> tokens
  lex_pc,       \* "loop" while tokenize() runs, then "returned" or "failed"
  lex_error,    \* the error tokenize() returned (<<>> when none)
  starts,       \* history: the 0-based source offset at which each token began
  \* ---- Parser (ast.hpp)
  m_tokens,     \* Parser::m_tokens
  m_index,      \* Parser::m_index
  program,      \* parse(): ASTProgram program (its functions)
  par_pc,       \* "fresh" after construction, "parsing" inside parse()'s loop,
                \* then which public method returned, or "failed"
  par_result,   \* what the last public method returned (<<>> before any call)
  consumed,     \* history: the cursor values consume() was executed at
  par_calls,    \* history: the number of public methods called on the parser
  \* ---- CodeGen (codegen.hpp)
  gen_program,  \* generate(): the ASTProgram being lowered
  module,       \* the llvm::Module the constructor made: functions, global
                \* strings, declarations
  gen_owner,    \* who holds the Module: "CodeGen" (the member module), the
                \* "caller" getModule() handed it to (the member is null), or
                \* "nobody" once that caller destroyed it
  gen_ip,       \* the builder's insertion point: "none", or the end of the
                \* entry block of the function created last, a function of
                \* the "module" or an "orphan" (a function in no module)
  variables,    \* CodeGen::variables, the symbol table: name -> slot
  gen_fi,       \* generate(): how many functions the loop has lowered
  gen_si,       \* generateFunctionBody(): how many statements it has lowered
  gen_pc,       \* "constructed"; inside generate(), "generate" between
                \* functions and "body" inside one; then how the last call
                \* ended: "done", "failed" (an llvm::Error), "threw" (an
                \* exception) or "crashed" (the process is gone)
  gen_error,    \* the message of the llvm::Error the last call returned
  gen_pass,     \* which CodeGen object is at work: the first or the second
  gen_first,    \* history: how generate() of the first CodeGen object ended,
                \* when it was the first call on the object
  gen_log,      \* history: the calls made on the object, each with its argument
  gen_made,     \* history: per function of the module, the body it was made
                \* for, whether its lowering is "open", "lowered" or "failed",
                \* and how many direct calls of generate_statement it took
  \* ---- main (main.cpp)
  main_argc,    \* argc
  main_file,    \* the input file: <<>> when it cannot be opened, else <<contents>>
  main_disk,    \* out.ll can be written, cannot be opened, or opens and then fails
  main_pc,      \* which stage main is about to run, or "exited"
  main_value,   \* the value the last stage handed on (contents, tokens, program, module)
  main_trace,   \* history: the stages run so far, each with its outcome
  main_exit,    \* the exit status (<<>> while main runs)
  out_ll,       \* the file out.ll (<<>> while it does not exist)
  \* ---- ErrorReporter (error_reporting.hpp)
  m_source,     \* ErrorReporter::m_source
  m_filename,   \* ErrorReporter::m_filename
  m_lines,      \* ErrorReporter::m_lines
  rep_pc,       \* "constructed", then "returned" once format_error was called
  rep_call,     \* the arguments of the call of format_error (<<>> before it)
  rep_result,   \* the string format_error returned
  \* ---- Tokenizer (tokenization.hpp)
  tokenizer,    \* the Tokenizer object: m_src, m_index, m_line, m_column
  tok_result,   \* what the last call of tokenize() returned (<<>> before any)
  tok_calls     \* history: the number of calls of tokenize() on the object

lexVars == <<m_src, index, line, column, tokens, lex_pc, lex_error, starts>>
parVars == <<m_tokens, m_index, program, par_pc, par_result, consumed, par_calls>>
genVars == <<gen_program, module, variables, gen_fi, gen_si, gen_pc, gen_error,
             gen_pass, gen_first, gen_owner, gen_ip, gen_log, gen_made>>
mainVars == <<main_argc, main_file, main_disk, main_pc, main_value, main_trace,
              main_exit, out_ll>>
repVars == <<m_source, m_filename, m_lines, rep_pc, rep_call, rep_result>>
tokVars == <<tokenizer, tok_result, tok_calls>>
vars == <<lexVars, parVars, genVars, mainVars, repVars, tokVars>>

\* a stage that is not part of the run
NoLexer ==
  /\ m_src = <<>> /\ index = 0 /\ line = 1 /\ column = 1
  /\ tokens = <<>> /\ lex_pc = "absent" /\ lex_error = <<>> /\ starts = <<>>

NoParser ==
  /\ m_tokens = <<>> /\ m_index = 0 /\ program = <<>>
  /\ par_pc = "absent" /\ par_result = <<>> /\ consumed = <<>> /\ par_calls = 0

NoCodeGen ==
  /\ gen_program = <<>> /\ module = <<>> /\ variables = <<>>
  /\ gen_fi = 0 /\ gen_si = 0 /\ gen_pc = "absent" /\ gen_error = <<>>
  /\ gen_pass = 0 /\ gen_first = <<>>
  /\ gen_owner = <<>> /\ gen_ip = <<>> /\ gen_log = <<>> /\ gen_made = <<>>

NoMain ==
  /\ main_argc = 0 /\ main_file = <<>> /\ main_disk = <<>> /\ main_pc = "absent"
  /\ main_value = <<>> /\ main_trace = <<>> /\ main_exit = <<>> /\ out_ll = <<>>

NoReporter ==
  /\ m_source = <<>> /\ m_filename = <<>> /\ m_lines = <<>>
  /\ rep_pc = "absent" /\ rep_call = <<>> /\ rep_result = <<>>

NoTokenizer == tokenizer = <<>> /\ tok_result = <<>> /\ tok_calls = 0

(***************************************************************************)
(* Characters (<cctype> in the "C" locale)                                 *)
(***************************************************************************)
Lower == {"a","b","c","d","e","f","g","h","i","j","k","l","m",
          "n","o","p","q","r","s","t","u","v","w","x","y","z"}
Upper == {"A","B","C","D","E","F","G","H","I","J","K","L","M",
          "N","O","P","Q","R","S","T","U","V","W","X","Y","Z"}
Digits == {"0","1","2","3","4","5","6","7","8","9"}

isalpha(c) == c \in Lower \cup Upper
isdigit(c) == c \in Digits
isalnum(c) == isalpha(c) \/ isdigit(c)
\* the vertical tab, 0x0b
VT == ""

\* isspace in the C locale: space, \t, \n, \v, \f, \r
isspace(c) == c \in {" ", "\t", "\n", VT, "\f", "\r"}

\* std::string::operator[]: s[i] for i < size(); s[size()] is the terminator
At(s, i) == IF i < Len(s) THEN s[i + 1] ELSE "NUL"

(***************************************************************************)
(* Tokens (tokens.hpp)                                                     *)
(***************************************************************************)
TokenType == {"int_lit", "semi", "open_paren", "close_paren", "open_curly",
              "close_curly", "ident", "let", "eq", "plus", "star", "minus",
              "fslash", "print", "fn", "ret"}

Token(type, value, ln, col) ==
  [type |-> type, value |-> value, line |-> ln, column |-> col]

\* a failed / successful Expected<Token> of a recognizer, with the values the
\* by-reference parameters index and column hold when it returns
ParseFail(msg, i, col) == [ok |-> FALSE, error |-> msg, index |-> i, column |-> col]
ParseOk(tok, i, col) == [ok |-> TRUE, token |-> tok, index |-> i, column |-> col]

\* IntLitParser::parse, the loop "consume all digits"
RECURSIVE DigitRun(_, _)
DigitRun(source, i) ==
  IF i < Len(source) /\ isdigit(At(source, i))
    THEN <<At(source, i)>> \o DigitRun(source, i + 1)
    ELSE <<>>

\* IdentifierParser::parse, the loop "subsequent characters can be alphanumeric"
RECURSIVE AlnumRun(_, _)
AlnumRun(source, i) ==
  IF i < Len(source) /\ isalnum(At(source, i))
    THEN <<At(source, i)>> \o AlnumRun(source, i + 1)
    ELSE <<>>

IntLitParser_parse(source, i, ln, col) ==
  LET value == DigitRun(source, i)
  IN ParseOk(Token("int_lit", <<value>>, ln, col), i + Len(value), col + Len(value))

IntLitParser_matches(source, i) == i < Len(source) /\ isdigit(At(source, i))

IdentifierParser_parse(source, i, ln, col) ==
  LET first == IF i < Len(source) /\ isalpha(At(source, i))
                 THEN <<At(source, i)>> ELSE <<>>
      rest  == AlnumRun(source, i + Len(first))
      value == first \o rest
  IN ParseOk(Token("ident", <<value>>, ln, col), i + Len(value), col + Len(value))

IdentifierParser_matches(source, i) == i < Len(source) /\ isalpha(At(source, i))

\* KeywordParser::parse, the loop "consume the keyword": the number of leading
\* characters of keyword[k..] found at source[i..]
RECURSIVE KeywordPrefix(_, _, _, _)
KeywordPrefix(source, keyword, k, i) ==
  IF k > Len(keyword) \/ i >= Len(source) \/ At(source, i) # keyword[k]
    THEN 0
    ELSE 1 + KeywordPrefix(source, keyword, k + 1, i + 1)

KeywordParser_parse(keyword, type, source, i, ln, col) ==
  LET n == KeywordPrefix(source, keyword, 1, i)
  IN IF n < Len(keyword)
       THEN ParseFail("Keyword parsing failed", i + n, col + n)
       ELSE IF i + n < Len(source) /\ isalnum(At(source, i + n))
              THEN ParseFail("Invalid keyword parsing", i + n, col + n)
              ELSE ParseOk(Token(type, <<>>, ln, col), i + n, col + n)

\* mutant: the keyword recognizer without the "not in the middle of an
\* identifier" check
KeywordParser_matches_NoBoundary(keyword, source, i) ==
  /\ i + Len(keyword) <= Len(source)
  /\ \A k \in 1..Len(keyword) : At(source, i + k - 1) = keyword[k]

\* mutant: the keyword recognizer claims a position on the keyword's first
\* character alone
KeywordParser_matches_FirstChar(keyword, source, i) ==
  /\ i < Len(source)
  /\ At(source, i) = keyword[1]

KeywordParser_matches(keyword, source, i) ==
  /\ i + Len(keyword) <= Len(source)
  /\ \A k \in 1..Len(keyword) : At(source, i + k - 1) = keyword[k]
  /\ ~(i + Len(keyword) < Len(source) /\ isalnum(At(source, i + Len(keyword))))

SingleCharParser_parse(character, type, source, i, ln, col) ==
  IF i >= Len(source) \/ At(source, i) # character
    THEN ParseFail("Single character parsing failed", i, col)
    ELSE ParseOk(Token(type, <<>>, ln, col), i + 1, col + 1)

SingleCharParser_matches(character, source, i) ==
  i < Len(source) /\ At(source, i) = character

\* TokenRegistry::create_parsers: the recognizers, in registration order
Kw(keyword, type) == [parser |-> "keyword", keyword |-> keyword, type |-> type]
Ch(character, type) == [parser |-> "single", character |-> character, type |-> type]

\* mutant: the registry without the recognizer of '/'
create_parsers_NoSlash ==
  << Kw(<<"r","e","t","u","r","n">>, "ret"),
     Kw(<<"p","r","i","n","t">>, "print"),
     Kw(<<"l","e","t">>, "let"),
     Kw(<<"f","n">>, "fn"),
     Ch("(", "open_paren"),
     Ch(")", "close_paren"),
     Ch("{", "open_curly"),
     Ch("}", "close_curly"),
     Ch("+", "plus"),
     Ch("-", "minus"),
     Ch("*", "star"),
     Ch("=", "eq"),
     Ch(";", "semi"),
     [parser |-> "int_lit"],
     [parser |-> "ident"] >>

create_parsers ==
  << Kw(<<"r","e","t","u","r","n">>, "ret"),
     Kw(<<"p","r","i","n","t">>, "print"),
     Kw(<<"l","e","t">>, "let"),
     Kw(<<"f","n">>, "fn"),
     Ch("(", "open_paren"),
     Ch(")", "close_paren"),
     Ch("{", "open_curly"),
     Ch("}", "close_curly"),
     Ch("+", "plus"),
     Ch("-", "minus"),
     Ch("*", "star"),
     Ch("/", "fslash"),
     Ch("=", "eq"),
     Ch(";", "semi"),
     [parser |-> "int_lit"],
     [parser |-> "ident"] >>

\* virtual dispatch: TokenParser::matches / TokenParser::parse
matches(p, source, i) ==
  CASE p.parser = "keyword" -> KeywordParser_matches(p.keyword, source, i)
    [] p.parser = "single"  -> SingleCharParser_matches(p.character, source, i)
    [] p.parser = "int_lit" -> IntLitParser_matches(source, i)
    [] p.parser = "ident"   -> IdentifierParser_matches(source, i)

parse_token(p, source, i, ln, col) ==
  CASE p.parser = "keyword" -> KeywordParser_parse(p.keyword, p.type, source, i, ln, col)
    [] p.parser = "single"  -> SingleCharParser_parse(p.character, p.type, source, i, ln, col)
    [] p.parser = "int_lit" -> IntLitParser_parse(source, i, ln, col)
    [] p.parser = "ident"   -> IdentifierParser_parse(source, i, ln, col)

(***************************************************************************)
(* Lexer (lexer.hpp)                                                       *)
(***************************************************************************)
\* ErrorReporter::format_error(message, line, column): the message parts and
\* the position handed to the reporter
LocatedError(parts, ln, col) ==
  [message |-> parts, located |-> TRUE, line |-> ln, column |-> col]

\* ErrorReporter::format_error(message): no position
PlainError(parts) ==
  [message |-> parts, located |-> FALSE, line |-> 0, column |-> 0]

\* Lexer::parse_next_token, the loop over the registry from recognizer k on.
\* i is the caller's index (by reference); ln and col are the function's own
\* copies of line and column (by value), which the recognizers advance.
\* fallbacks counts the recognizers that matched and then failed to parse.
RECURSIVE TryParsers(_, _, _, _, _, _)
TryParsers(source, k, i, ln, col, fallbacks) ==
  IF k > Len(create_parsers)
    THEN [ok |-> FALSE, index |-> i, fallbacks |-> fallbacks,
          error |-> LocatedError(<<"Unexpected character '", At(source, i), "'">>, ln, col)]
    ELSE IF matches(create_parsers[k], source, i)
      THEN LET r == parse_token(create_parsers[k], source, i, ln, col)
           IN IF r.ok
                THEN [ok |-> TRUE, token |-> r.token, index |-> r.index,
                      fallbacks |-> fallbacks]
                ELSE TryParsers(source, k + 1, r.index, ln, r.column, fallbacks + 1)
      ELSE TryParsers(source, k + 1, i, ln, col, fallbacks)

parse_next_token(source, i, ln, col) ==
  IF i >= Len(source)
    THEN [ok |-> FALSE, index |-> i, fallbacks |-> 0,
          error |-> LocatedError(<<"Unexpected end of input">>, ln, col)]
    ELSE TryParsers(source, 1, i, ln, col, 0)

\* mutant: a newline resets the column and leaves the line as it is
skip_whitespace_NoLineInc(source, i, ln, col) ==
  IF i >= Len(source) \/ ~isspace(At(source, i))
    THEN [skipped |-> FALSE, index |-> i, line |-> ln, column |-> col]
    ELSE IF At(source, i) = "\n"
      THEN [skipped |-> TRUE, index |-> i + 1, line |-> ln, column |-> 1]
      ELSE [skipped |-> TRUE, index |-> i + 1, line |-> ln, column |-> col + 1]

\* mutant: a blank takes the character behind it along
skip_whitespace_Two(source, i, ln, col) ==
  IF i >= Len(source) \/ ~isspace(At(source, i))
    THEN [skipped |-> FALSE, index |-> i, line |-> ln, column |-> col]
    ELSE IF At(source, i) = "\n"
      THEN [skipped |-> TRUE, index |-> i + 2, line |-> ln + 1, column |-> 1]
      ELSE [skipped |-> TRUE, index |-> i + 2, line |-> ln, column |-> col + 1]

\* Lexer::skip_whitespace: whether it skipped, and index, line, column after it
skip_whitespace(source, i, ln, col) ==
  IF i >= Len(source) \/ ~isspace(At(source, i))
    THEN [skipped |-> FALSE, index |-> i, line |-> ln, column |-> col]
    ELSE IF At(source, i) = "\n"
      THEN [skipped |-> TRUE, index |-> i + 1, line |-> ln + 1, column |-> 1]
      ELSE [skipped |-> TRUE, index |-> i + 1, line |-> ln, column |-> col + 1]

\* ---- the inputs of the lexer: sources made of at most MaxPieces lexemes
MaxPieces == 4

Pieces ==
  { <<"r","e","t","u","r","n">>, <<"p","r","i","n","t">>, <<"l","e","t">>,
    <<"f","n">>, <<"x">>, <<"1">>, <<" ">>, <<"\n">>, <<"/">>, <<"@">> }

RECURSIVE Sources(_)
Sources(n) ==
  IF n = 0 THEN { <<>> }
  ELSE LET shorter == Sources(n - 1)
       IN shorter \cup { s \o p : s \in shorter, p \in Pieces }

\* Lexer::Lexer followed by the first lines of tokenize()
LexInit ==
  /\ NoTokenizer
  /\ NoReporter
  /\ NoMain
  /\ NoCodeGen
  /\ NoParser
  /\ m_src \in Sources(MaxPieces)
  /\ index = 0
  /\ line = 1
  /\ column = 1
  /\ tokens = <<>>
  /\ lex_pc = "loop"
  /\ lex_error = <<>>
  /\ starts = <<>>

\* tokenize(): one iteration in which skip_whitespace returns true
TokenizeSkip ==
  /\ lex_pc = "loop"
  /\ index < Len(m_src)
  /\ LET w == skip_whitespace(m_src, index, line, column)
     IN /\ w.skipped
        /\ index' = w.index
        /\ line' = w.line
        /\ column' = w.column
  /\ UNCHANGED <<m_src, tokens, lex_pc, lex_error, starts>>
  /\ UNCHANGED <<parVars, genVars, mainVars, repVars, tokVars>>

\* tokenize(): one iteration in which parse_next_token yields a token.  line
\* and column are passed by value, so only index changes.
TokenizeToken ==
  /\ lex_pc = "loop"
  /\ index < Len(m_src)
  /\ ~skip_whitespace(m_src, index, line, column).skipped
  /\ LET r == parse_next_token(m_src, index, line, column)
     IN /\ r.ok
        /\ tokens' = Append(tokens, r.token)
        /\ index' = r.index
        /\ starts' = Append(starts, index)
  /\ UNCHANGED <<m_src, line, column, lex_pc, lex_error>>
  /\ UNCHANGED <<parVars, genVars, mainVars, repVars, tokVars>>

\* tokenize(): one iteration in which parse_next_token fails
TokenizeFail ==
  /\ lex_pc = "loop"
  /\ index < Len(m_src)
  /\ ~skip_whitespace(m_src, index, line, column).skipped
  /\ LET r == parse_next_token(m_src, index, line, column)
     IN /\ ~r.ok
        /\ lex_error' = <<r.error>>
        /\ index' = r.index
        /\ lex_pc' = "failed"
  /\ UNCHANGED <<m_src, line, column, tokens, starts>>
  /\ UNCHANGED <<parVars, genVars, mainVars, repVars, tokVars>>

\* tokenize(): the loop condition fails and the tokens are returned
TokenizeReturn ==
  /\ lex_pc = "loop"
  /\ index >= Len(m_src)
  /\ lex_pc' = "returned"
  /\ UNCHANGED <<m_src, index, line, column, tokens, lex_error, starts>>
  /\ UNCHANGED <<parVars, genVars, mainVars, repVars, tokVars>>

LexNext == TokenizeSkip \/ TokenizeToken \/ TokenizeFail \/ TokenizeReturn

(***************************************************************************)
(* Parser (ast.hpp)                                                        *)
(*                                                                         *)
(* The recursive-descent methods are operators on the token vector and the *)
(* parser state ps = [m_index, consumed, threw]; each returns its value or *)
(* error together with the state it leaves.  consumed logs the cursor of   *)
(* every consume(); threw records a std::out_of_range of m_tokens.at().    *)
(***************************************************************************)
POk(value, ps) == [ok |-> TRUE, value |-> value, ps |-> ps]
PErr(error, ps) == [ok |-> FALSE, error |-> error, ps |-> ps]

\* what m_tokens.at() yields once it has thrown: never looked at by the caller
NoToken == Token("none", <<>>, 0, 0)

\* Parser::peek(ahead = 1)
peek(toks, ps) ==
  IF ps.m_index + 1 > Len(toks) THEN <<>> ELSE <<toks[ps.m_index + 1]>>

\* mutant: consume() skips the token behind the one it returns
consume_Two(toks, ps) ==
  [token |-> IF ps.m_index < Len(toks) THEN toks[ps.m_index + 1] ELSE NoToken,
   ps |-> [m_index |-> ps.m_index + 2,
           consumed |-> Append(ps.consumed, ps.m_index),
           threw |-> ps.threw \/ ps.m_index >= Len(toks)]]

\* Parser::consume: m_tokens.at(m_index++)
consume(toks, ps) ==
  [token |-> IF ps.m_index < Len(toks) THEN toks[ps.m_index + 1] ELSE NoToken,
   ps |-> [m_index |-> ps.m_index + 1,
           consumed |-> Append(ps.consumed, ps.m_index),
           threw |-> ps.threw \/ ps.m_index >= Len(toks)]]

token_type_to_string(type) ==
  CASE type = "open_paren" -> "'('"
    [] type = "close_paren" -> "')'"
    [] type = "open_curly" -> "'{'"
    [] type = "close_curly" -> "'}'"
    [] type = "ident" -> "identifier"
    [] type = "eq" -> "'='"
    [] type = "semi" -> "';'"
    [] type = "int_lit" -> "integer literal"
    [] type = "let" -> "'let'"
    [] type = "print" -> "'print'"
    [] type = "fn" -> "'fn'"
    [] type = "ret" -> "'return'"
    [] type = "plus" -> "'+'"
    [] type = "minus" -> "'-'"
    [] type = "star" -> "'*'"
    [] type = "fslash" -> "'/'"
    [] OTHER -> "unknown token"

\* mutant: a token of the wrong type is consumed before it is reported
expect_token_ConsumeFirst(toks, ps, expected_type, context) ==
  IF peek(toks, ps) = <<>>
    THEN PErr(PlainError(<<"Expected ">> \o context \o <<" at end of input">>), ps)
    ELSE LET token == peek(toks, ps)[1]
             c == consume(toks, ps)
         IN IF token.type # expected_type
              THEN PErr(LocatedError(<<"Expected ">> \o context
                                       \o <<", got ", token_type_to_string(token.type)>>,
                                     token.line, token.column), c.ps)
              ELSE POk(c.token, c.ps)

\* Parser::expect_token; context is the message fragment, as its parts
expect_token(toks, ps, expected_type, context) ==
  IF peek(toks, ps) = <<>>
    THEN PErr(PlainError(<<"Expected ">> \o context \o <<" at end of input">>), ps)
    ELSE LET token == peek(toks, ps)[1]
         IN IF token.type # expected_type
              THEN PErr(LocatedError(<<"Expected ">> \o context
                                       \o <<", got ", token_type_to_string(token.type)>>,
                                     token.line, token.column), ps)
              ELSE LET c == consume(toks, ps) IN POk(c.token, c.ps)

\* Parser::expect_and_consume: the same, the token dropped
expect_and_consume(toks, ps, expected_type, context) ==
  LET result == expect_token(toks, ps, expected_type, context)
  IN IF result.ok THEN POk(<<>>, result.ps) ELSE result

\* ASTPrimaryExpr{.int_lit = ...} / ASTPrimaryExpr{.ident = ...}
ASTPrimaryExpr(int_lit, ident) == [int_lit |-> int_lit, ident |-> ident]

\* mutant: at the end of the input the primary is consumed unseen
parse_primary_Unchecked(toks, ps) ==
  IF peek(toks, ps) = <<>> \/ peek(toks, ps)[1].type = "int_lit"
    THEN LET c == consume(toks, ps)
         IN [value |-> <<ASTPrimaryExpr(<<c.token>>, <<>>)>>, ps |-> c.ps]
    ELSE IF peek(toks, ps) # <<>> /\ peek(toks, ps)[1].type = "ident"
      THEN LET c == consume(toks, ps)
           IN [value |-> <<ASTPrimaryExpr(<<>>, <<c.token>>)>>, ps |-> c.ps]
      ELSE [value |-> <<>>, ps |-> ps]

\* Parser::parse_primary: an optional<ASTPrimaryExpr> and the state
parse_primary(toks, ps) ==
  IF peek(toks, ps) # <<>> /\ peek(toks, ps)[1].type = "int_lit"
    THEN LET c == consume(toks, ps)
         IN [value |-> <<ASTPrimaryExpr(<<c.token>>, <<>>)>>, ps |-> c.ps]
    ELSE IF peek(toks, ps) # <<>> /\ peek(toks, ps)[1].type = "ident"
      THEN LET c == consume(toks, ps)
           IN [value |-> <<ASTPrimaryExpr(<<>>, <<c.token>>)>>, ps |-> c.ps]
      ELSE [value |-> <<>>, ps |-> ps]

\* Parser::is_binary_operator
is_binary_operator(type) == type \in {"plus", "minus", "star", "fslash"}

\* ASTExpr holding an ASTPrimaryExpr / an ASTBinaryExpr
ExprPrimary(primary) == [var |-> "ASTPrimaryExpr", primary |-> primary]
ExprBinary(lhs, op, rhs) == [var |-> "ASTBinaryExpr", lhs |-> lhs, op |-> op, rhs |-> rhs]

\* the early returns "if (!result) return result.takeError();": the rest of
\* the method runs on a success only
AndThen(result, rest(_)) == IF result.ok THEN rest(result) ELSE result

\* mutant: the right operand parsed as a primary, not as an expression
parse_expr_PrimaryRhs(toks, ps) ==
  LET primary == parse_primary(toks, ps)
      p1 == primary.ps
  IN IF primary.value = <<>>
       THEN PErr(PlainError(<<"Expected expression">>), p1)
       ELSE IF peek(toks, p1) # <<>> /\ is_binary_operator(peek(toks, p1)[1].type)
         THEN LET rhs == parse_primary(toks, consume(toks, p1).ps)
              IN IF rhs.value = <<>>
                   THEN PErr(PlainError(<<"Expected expression">>), rhs.ps)
                   ELSE POk(ExprBinary(primary.value[1], consume(toks, p1).token,
                                       ExprPrimary(rhs.value[1])), rhs.ps)
         ELSE POk(ExprPrimary(primary.value[1]), p1)

\* Parser::parse_expr
RECURSIVE parse_expr(_, _)
parse_expr(toks, ps) ==
  LET primary == parse_primary(toks, ps)
      p1 == primary.ps
  IN IF primary.value = <<>>
       THEN IF peek(toks, p1) # <<>>
              THEN PErr(LocatedError(<<"Expected expression">>,
                                     peek(toks, p1)[1].line, peek(toks, p1)[1].column), p1)
              ELSE PErr(PlainError(<<"Expected expression">>), p1)
       ELSE IF peek(toks, p1) # <<>> /\ is_binary_operator(peek(toks, p1)[1].type)
         THEN AndThen(parse_expr(toks, consume(toks, p1).ps), LAMBDA rhs :
                POk(ExprBinary(primary.value[1], consume(toks, p1).token, rhs.value), rhs.ps))
         ELSE POk(ExprPrimary(primary.value[1]), p1)

\* Parser::parse_print
parse_print(toks, ps) ==
  AndThen(expect_and_consume(toks, ps, "open_paren", <<"(">>), LAMBDA open :
  AndThen(parse_expr(toks, open.ps), LAMBDA expr :
  AndThen(expect_and_consume(toks, expr.ps, "close_paren", <<")">>), LAMBDA close :
  POk([expr |-> expr.value], close.ps))))

\* Parser::parse_let
parse_let(toks, ps) ==
  AndThen(expect_token(toks, ps, "ident", <<"identifier after 'let'">>), LAMBDA ident_result :
  AndThen(expect_and_consume(toks, ident_result.ps, "eq", <<"'=' after identifier">>), LAMBDA eq :
  AndThen(parse_expr(toks, eq.ps), LAMBDA expr :
  POk([ident |-> ident_result.value, expr |-> expr.value], expr.ps))))

\* mutant: the semicolon error without the statement kind
expect_semicolon_NoKind(toks, ps, context) ==
  expect_and_consume(toks, ps, "semi", <<"semicolon">>)

\* Parser::expect_semicolon: format("semicolon after {}", context)
expect_semicolon(toks, ps, context) ==
  expect_and_consume(toks, ps, "semi", <<"semicolon after ", context>>)

\* ASTStmt holding one of its four alternatives
ASTStmt(var, node) == [var |-> var, node |-> node]

\* mutant: a ';' alone is accepted as an (empty) statement
parse_statement_EmptyOk(toks, ps) ==
  IF peek(toks, ps) = <<>>
    THEN PErr(PlainError(<<"Unexpected end of input">>), ps)
    ELSE
      LET token_type == peek(toks, ps)[1].type
      IN CASE token_type = "semi" ->
                POk(ASTStmt("ASTExprStmt", [expr |-> ExprPrimary(ASTPrimaryExpr(<<>>, <<>>))]),
                    consume(toks, ps).ps)
           [] token_type = "let" ->
                AndThen(parse_let(toks, consume(toks, ps).ps), LAMBDA let_stmt :
                AndThen(expect_semicolon(toks, let_stmt.ps, "let"), LAMBDA semi :
                POk(ASTStmt("ASTLetStmt", let_stmt.value), semi.ps)))
           [] token_type = "print" ->
                AndThen(parse_print(toks, consume(toks, ps).ps), LAMBDA print_stmt :
                AndThen(expect_semicolon(toks, print_stmt.ps, "print"), LAMBDA semi :
                POk(ASTStmt("ASTPrintStmt", print_stmt.value), semi.ps)))
           [] token_type = "ret" ->
                AndThen(parse_expr(toks, consume(toks, ps).ps), LAMBDA expr :
                AndThen(expect_semicolon(toks, expr.ps, "return"), LAMBDA semi :
                POk(ASTStmt("ASTReturnStmt", [expr |-> expr.value]), semi.ps)))
           [] OTHER ->
                AndThen(parse_expr(toks, ps), LAMBDA expr :
                AndThen(expect_semicolon(toks, expr.ps, "expression"), LAMBDA semi :
                POk(ASTStmt("ASTExprStmt", [expr |-> expr.value]), semi.ps)))

\* Parser::parse_statement
parse_statement(toks, ps) ==
  IF peek(toks, ps) = <<>>
    THEN PErr(PlainError(<<"Unexpected end of input">>), ps)
    ELSE
      LET token_type == peek(toks, ps)[1].type
      IN CASE token_type = "let" ->
                AndThen(parse_let(toks, consume(toks, ps).ps), LAMBDA let_stmt :
                AndThen(expect_semicolon(toks, let_stmt.ps, "let"), LAMBDA semi :
                POk(ASTStmt("ASTLetStmt", let_stmt.value), semi.ps)))
           [] token_type = "print" ->
                AndThen(parse_print(toks, consume(toks, ps).ps), LAMBDA print_stmt :
                AndThen(expect_semicolon(toks, print_stmt.ps, "print"), LAMBDA semi :
                POk(ASTStmt("ASTPrintStmt", print_stmt.value), semi.ps)))
           [] token_type = "ret" ->
                AndThen(parse_expr(toks, consume(toks, ps).ps), LAMBDA expr :
                AndThen(expect_semicolon(toks, expr.ps, "return"), LAMBDA semi :
                POk(ASTStmt("ASTReturnStmt", [expr |-> expr.value]), semi.ps)))
           [] OTHER ->
                AndThen(parse_expr(toks, ps), LAMBDA expr :
                AndThen(expect_semicolon(toks, expr.ps, "expression"), LAMBDA semi :
                POk(ASTStmt("ASTExprStmt", [expr |-> expr.value]), semi.ps)))

\* Parser::parse_function, the loop over the statements of the body
RECURSIVE ParseBody(_, _, _)
ParseBody(toks, ps, body) ==
  IF peek(toks, ps) # <<>> /\ peek(toks, ps)[1].type # "close_curly"
    THEN AndThen(parse_statement(toks, ps), LAMBDA stmt :
           ParseBody(toks, stmt.ps, Append(body, stmt.value)))
    ELSE POk(body, ps)

\* Parser::parse_function
parse_function(toks, ps) ==
  AndThen(expect_token(toks, ps, "ident", <<"function name after 'fn'">>), LAMBDA name_result :
  AndThen(expect_and_consume(toks, name_result.ps, "open_paren", <<"(">>), LAMBDA open :
  AndThen(expect_and_consume(toks, open.ps, "close_paren",
                             <<") (parameters not yet supported)">>), LAMBDA close :
  AndThen(expect_and_consume(toks, close.ps, "open_curly",
                             <<"{ to start function body">>), LAMBDA curly :
  AndThen(ParseBody(toks, curly.ps, <<>>), LAMBDA body :
  AndThen(expect_and_consume(toks, body.ps, "close_curly",
                             <<"} to end function body">>), LAMBDA end :
  POk([name |-> name_result.value, body |-> body.value], end.ps)))))))

\* mutant: a function whose name only starts with main counts as main
has_main_function_Prefix(functions) ==
  \E k \in 1..Len(functions) :
    /\ Len(functions[k].name.value) = 1
    /\ Len(functions[k].name.value[1]) >= 4
    /\ SubSeq(functions[k].name.value[1], 1, 4) = <<"m","a","i","n">>

\* Parser::has_main_function: func.name.value == "main"
has_main_function(functions) ==
  \E k \in 1..Len(functions) : functions[k].name.value = << <<"m","a","i","n">> >>


\* ---- the inputs of the parser
MaxChain == 3
MaxFuncs == 2

Lx(type) == [type |-> type, value |-> <<>>]
Id(name) == [type |-> "ident", value |-> <<name>>]
IntLit(text) == [type |-> "int_lit", value |-> <<text>>]

\* the k-th lexeme becomes a token at line 1, column k
Place(lexemes) ==
  [k \in 1..Len(lexemes) |-> Token(lexemes[k].type, lexemes[k].value, 1, k)]

ChainPrims == { IntLit(<<"1">>), IntLit(<<"2">>), IntLit(<<"3">>), Id(<<"x">>) }
ChainOps == { Lx("plus"), Lx("minus"), Lx("star"), Lx("fslash") }

\* p1 op1 p2 ... pn with at most n primaries
RECURSIVE Chains(_)
Chains(n) ==
  IF n = 0 THEN {}
  ELSE { <<p>> : p \in ChainPrims }
         \cup { <<p, o>> \o c : p \in ChainPrims, o \in ChainOps, c \in Chains(n - 1) }

\* one statement of each form around a small expression, without its ';',
\* then nothing or any one token
StmtExprs == { <<IntLit(<<"1">>)>>, <<Id(<<"x">>)>>, <<Id(<<"x">>), Lx("plus"), IntLit(<<"1">>)>> }

StmtBodies ==
  { <<Lx("let"), Id(<<"y">>), Lx("eq")>> \o e : e \in StmtExprs }
    \cup { <<Lx("print"), Lx("open_paren")>> \o e \o <<Lx("close_paren")>> : e \in StmtExprs }
    \cup { <<Lx("ret")>> \o e : e \in StmtExprs }
    \cup StmtExprs

Followers ==
  { <<>> } \cup { <<Lx(t)>> : t \in TokenType \ {"ident", "int_lit"} }
           \cup { <<Id(<<"z">>)>>, <<IntLit(<<"7">>)>> }
           \cup { <<Lx("plus"), Lx("close_curly")>>,
                  <<Lx("star"), Id(<<"z">>), Lx("semi")>> }

\* whole function definitions
FuncNames == { <<"m","a","i","n">>, <<"f">>, <<"m","a","i","n","x">> }

FuncBodies ==
  { <<>>,
    <<Lx("ret"), IntLit(<<"1">>), Lx("semi")>>,
    <<Lx("let"), Id(<<"x">>), Lx("eq"), IntLit(<<"1">>), Lx("semi"),
      Lx("print"), Lx("open_paren"), Id(<<"x">>), Lx("close_paren"), Lx("semi")>> }

Functions ==
  { <<Lx("fn"), Id(name), Lx("open_paren"), Lx("close_paren"), Lx("open_curly")>>
      \o body \o <<Lx("close_curly")>> : name \in FuncNames, body \in FuncBodies }

RECURSIVE Programs(_)
Programs(n) ==
  IF n = 0 THEN { <<>> }
  ELSE LET shorter == Programs(n - 1)
       IN shorter \cup { p \o f : p \in shorter, f \in Functions }

\* well-formed programs with one token inserted, removed or replaced
BasePrograms ==
  { <<Lx("fn"), Id(<<"m","a","i","n">>), Lx("open_paren"), Lx("close_paren"),
      Lx("open_curly"), Lx("close_curly")>>,
    <<Lx("fn"), Id(<<"m","a","i","n">>), Lx("open_paren"), Lx("close_paren"), Lx("open_curly"),
      Lx("let"), Id(<<"x">>), Lx("eq"), IntLit(<<"1">>), Lx("plus"), Id(<<"y">>), Lx("semi"),
      Lx("print"), Lx("open_paren"), Id(<<"x">>), Lx("close_paren"), Lx("semi"),
      Lx("close_curly")>>,
    <<Lx("fn"), Id(<<"f">>), Lx("open_paren"), Lx("close_paren"), Lx("open_curly"),
      Lx("ret"), IntLit(<<"1">>), Lx("semi"), Id(<<"x">>), Lx("semi"), Lx("close_curly"),
      Lx("fn"), Id(<<"m","a","i","n">>), Lx("open_paren"), Lx("close_paren"),
      Lx("open_curly"), Lx("close_curly")>> }

EditTokens ==
  { Lx(t) : t \in TokenType \ {"ident", "int_lit"} } \cup { Id(<<"z">>), IntLit(<<"7">>) }

Edits(p) ==
  { SubSeq(p, 1, k) \o <<t>> \o SubSeq(p, k + 1, Len(p)) : k \in 0..Len(p), t \in EditTokens }
    \cup { SubSeq(p, 1, k - 1) \o SubSeq(p, k + 1, Len(p)) : k \in 1..Len(p) }
    \cup { SubSeq(p, 1, k - 1) \o <<t>> \o SubSeq(p, k + 1, Len(p)) :
             k \in 1..Len(p), t \in EditTokens }

ChainInputs == { Place(c) : c \in Chains(MaxChain) }
StmtInputs == { Place(b \o f) : b \in StmtBodies, f \in Followers }
ProgramInputs == { Place(p) : p \in Programs(MaxFuncs) }
EditedInputs == { Place(e) : e \in UNION { Edits(p) : p \in BasePrograms } }

ParserInputs == ChainInputs \cup StmtInputs \cup ProgramInputs \cup EditedInputs

\* ---- the parser as a state machine
\* the state a public method starts from
PS(i) == [m_index |-> i, consumed |-> <<>>, threw |-> FALSE]

\* m_index and the consume() log after a call; a consume() past the end throws
\* out of the call right after m_index++
CursorAfter(toks, ps) == IF ps.threw THEN Len(toks) + 1 ELSE ps.m_index

LogAfter(toks, ps) ==
  IF ps.threw
    THEN SubSeq(ps.consumed, 1,
                CHOOSE k \in 1..Len(ps.consumed) :
                  /\ ps.consumed[k] >= Len(toks)
                  /\ \A j \in 1..(k - 1) : ps.consumed[j] < Len(toks))
    ELSE ps.consumed

\* what a public method hands back: its value, its error, or the exception
Returned(method, r) ==
  IF r.ps.threw THEN [method |-> method, ok |-> FALSE, error |-> PlainError(<<"std::out_of_range">>)]
  ELSE IF r.ok THEN [method |-> method, ok |-> TRUE, value |-> r.value]
  ELSE [method |-> method, ok |-> FALSE, error |-> r.error]

\* the calls made on one Parser object
MaxCalls == 2

\* the contexts handed to expect_semicolon
SemicolonContexts == {"let", "expression"}

\* Parser::Parser
ParInit ==
  /\ NoTokenizer
  /\ NoReporter
  /\ NoMain
  /\ NoLexer
  /\ NoCodeGen
  /\ m_tokens \in ParserInputs
  /\ m_index = 0
  /\ program = <<>>
  /\ par_pc = "fresh"
  /\ par_result = <<>>
  /\ consumed = <<>>
  /\ par_calls = 0

\* no public method is running: the parser is new or its last call is over
Idle == par_pc \in {"fresh", "returned", "failed", "parsed"}

\* a call of the public parse_primary, at the cursor the calls before it left
CallParsePrimary ==
  /\ Idle
  /\ par_calls < MaxCalls
  /\ LET r == parse_primary(m_tokens, PS(m_index))
     IN /\ m_index' = CursorAfter(m_tokens, r.ps)
        /\ consumed' = consumed \o LogAfter(m_tokens, r.ps)
        /\ par_result' = <<Returned("parse_primary", POk(r.value, r.ps))>>
  /\ par_pc' = "returned"
  /\ par_calls' = par_calls + 1
  /\ UNCHANGED <<m_tokens, program>>
  /\ UNCHANGED <<lexVars, genVars, mainVars, repVars, tokVars>>

\* a call of the public parse_expr, at the cursor the calls before it left
CallParseExpr ==
  /\ Idle
  /\ par_calls < MaxCalls
  /\ LET r == parse_expr(m_tokens, PS(m_index))
     IN /\ m_index' = CursorAfter(m_tokens, r.ps)
        /\ consumed' = consumed \o LogAfter(m_tokens, r.ps)
        /\ par_result' = <<Returned("parse_expr", r)>>
  /\ par_pc' = "returned"
  /\ par_calls' = par_calls + 1
  /\ UNCHANGED <<m_tokens, program>>
  /\ UNCHANGED <<lexVars, genVars, mainVars, repVars, tokVars>>

\* a call of the public parse_let, at the cursor the calls before it left
CallParseLet ==
  /\ Idle
  /\ par_calls < MaxCalls
  /\ LET r == parse_let(m_tokens, PS(m_index))
     IN /\ m_index' = CursorAfter(m_tokens, r.ps)
        /\ consumed' = consumed \o LogAfter(m_tokens, r.ps)
        /\ par_result' = <<Returned("parse_let", r)>>
  /\ par_pc' = "returned"
  /\ par_calls' = par_calls + 1
  /\ UNCHANGED <<m_tokens, program>>
  /\ UNCHANGED <<lexVars, genVars, mainVars, repVars, tokVars>>

\* a call of the public parse_print, at the cursor the calls before it left
CallParsePrint ==
  /\ Idle
  /\ par_calls < MaxCalls
  /\ LET r == parse_print(m_tokens, PS(m_index))
     IN /\ m_index' = CursorAfter(m_tokens, r.ps)
        /\ consumed' = consumed \o LogAfter(m_tokens, r.ps)
        /\ par_result' = <<Returned("parse_print", r)>>
  /\ par_pc' = "returned"
  /\ par_calls' = par_calls + 1
  /\ UNCHANGED <<m_tokens, program>>
  /\ UNCHANGED <<lexVars, genVars, mainVars, repVars, tokVars>>

\* a call of the public expect_semicolon, at the cursor the calls before it left
CallExpectSemicolon ==
  /\ Idle
  /\ par_calls < MaxCalls
  /\ \E context \in SemicolonContexts :
       LET r == expect_semicolon(m_tokens, PS(m_index), context)
       IN /\ m_index' = CursorAfter(m_tokens, r.ps)
          /\ consumed' = consumed \o LogAfter(m_tokens, r.ps)
          /\ par_result' = <<Returned("expect_semicolon", r)>>
  /\ par_pc' = "returned"
  /\ par_calls' = par_calls + 1
  /\ UNCHANGED <<m_tokens, program>>
  /\ UNCHANGED <<lexVars, genVars, mainVars, repVars, tokVars>>

\* a call of the public parse_statement, at the cursor the calls before it left
CallParseStatement ==
  /\ Idle
  /\ par_calls < MaxCalls
  /\ LET r == parse_statement(m_tokens, PS(m_index))
     IN /\ m_index' = CursorAfter(m_tokens, r.ps)
        /\ consumed' = consumed \o LogAfter(m_tokens, r.ps)
        /\ par_result' = <<Returned("parse_statement", r)>>
  /\ par_pc' = "returned"
  /\ par_calls' = par_calls + 1
  /\ UNCHANGED <<m_tokens, program>>
  /\ UNCHANGED <<lexVars, genVars, mainVars, repVars, tokVars>>

\* a call of the public parse_function, at the cursor the calls before it left
CallParseFunction ==
  /\ Idle
  /\ par_calls < MaxCalls
  /\ LET r == parse_function(m_tokens, PS(m_index))
     IN /\ m_index' = CursorAfter(m_tokens, r.ps)
        /\ consumed' = consumed \o LogAfter(m_tokens, r.ps)
        /\ par_result' = <<Returned("parse_function", r)>>
  /\ par_pc' = "returned"
  /\ par_calls' = par_calls + 1
  /\ UNCHANGED <<m_tokens, program>>
  /\ UNCHANGED <<lexVars, genVars, mainVars, repVars, tokVars>>

\* parse() is running, or can be entered: its loop is met with the program
\* collected so far, which is empty on entry
InLoop == par_pc = "parsing" \/ (Idle /\ par_calls < MaxCalls)
LoopProgram == IF par_pc = "parsing" THEN program ELSE <<>>
LoopCalls == IF par_pc = "parsing" THEN par_calls ELSE par_calls + 1

\* parse(): one iteration of the loop at an fn token
ParseFunction ==
  /\ InLoop
  /\ peek(m_tokens, PS(m_index)) # <<>>
  /\ peek(m_tokens, PS(m_index))[1].type = "fn"
  /\ LET func == parse_function(m_tokens, consume(m_tokens, PS(m_index)).ps)
     IN /\ m_index' = CursorAfter(m_tokens, func.ps)
        /\ consumed' = consumed \o LogAfter(m_tokens, func.ps)
        /\ IF func.ok /\ ~func.ps.threw
             THEN /\ program' = Append(LoopProgram, func.value)
                  /\ par_pc' = "parsing"
                  /\ par_result' = <<>>
             ELSE /\ program' = LoopProgram
                  /\ par_pc' = "failed"
                  /\ par_result' = <<Returned("parse", func)>>
  /\ par_calls' = LoopCalls
  /\ UNCHANGED m_tokens
  /\ UNCHANGED <<lexVars, genVars, mainVars, repVars, tokVars>>

\* mutant: once main is parsed, a token that is not fn ends the loop quietly
ParseTopLevel_AfterMain ==
  /\ InLoop
  /\ peek(m_tokens, PS(m_index)) # <<>>
  /\ peek(m_tokens, PS(m_index))[1].type # "fn"
  /\ LET t == peek(m_tokens, PS(m_index))[1]
     IN par_result' =
          IF has_main_function(LoopProgram)
            THEN <<[method |-> "parse", ok |-> TRUE, value |-> [functions |-> LoopProgram]]>>
            ELSE <<[method |-> "parse", ok |-> FALSE,
                    error |-> LocatedError(
                      <<"Expected function definition (top-level statements not allowed)">>,
                      t.line, t.column)]>>
  /\ par_pc' = IF has_main_function(LoopProgram) THEN "parsed" ELSE "failed"
  /\ program' = LoopProgram
  /\ par_calls' = LoopCalls
  /\ UNCHANGED <<m_tokens, m_index, consumed>>
  /\ UNCHANGED <<lexVars, genVars, mainVars, repVars, tokVars>>

\* parse(): the loop meets a token that is not fn
ParseTopLevel ==
  /\ InLoop
  /\ peek(m_tokens, PS(m_index)) # <<>>
  /\ peek(m_tokens, PS(m_index))[1].type # "fn"
  /\ LET t == peek(m_tokens, PS(m_index))[1]
     IN par_result' =
          <<[method |-> "parse", ok |-> FALSE,
             error |-> LocatedError(
               <<"Expected function definition (top-level statements not allowed)">>,
               t.line, t.column)]>>
  /\ par_pc' = "failed"
  /\ program' = LoopProgram
  /\ par_calls' = LoopCalls
  /\ UNCHANGED <<m_tokens, m_index, consumed>>
  /\ UNCHANGED <<lexVars, genVars, mainVars, repVars, tokVars>>

\* parse(): the loop is over; the main-function check and the return
ParseEnd ==
  /\ InLoop
  /\ peek(m_tokens, PS(m_index)) = <<>>
  /\ IF ~has_main_function(LoopProgram)
       THEN /\ par_result' =
                 <<[method |-> "parse", ok |-> FALSE,
                    error |-> PlainError(<<"Program must have a 'main' function">>)]>>
            /\ par_pc' = "failed"
            /\ m_index' = m_index
       ELSE /\ par_result' =
                 <<[method |-> "parse", ok |-> TRUE, value |-> [functions |-> LoopProgram]]>>
            /\ par_pc' = "parsed"
            /\ m_index' = 0
  /\ program' = LoopProgram
  /\ par_calls' = LoopCalls
  /\ UNCHANGED <<m_tokens, consumed>>
  /\ UNCHANGED <<lexVars, genVars, mainVars, repVars, tokVars>>

ParNext ==
  \/ CallParsePrimary \/ CallParseExpr \/ CallParseLet \/ CallParsePrint
  \/ CallExpectSemicolon \/ CallParseStatement \/ CallParseFunction
  \/ ParseFunction \/ ParseTopLevel \/ ParseEnd


(***************************************************************************)
(* CodeGen (codegen.hpp)                                                   *)
(*                                                                         *)
(* The module is a record: its functions in creation order, each with its  *)
(* name and the instruction list of its entry block, the global strings    *)
(* and the declared external functions.  An instruction is a record        *)
(* [op, name, operands]; a name is cut to 1024 characters, and one already *)
(* used in the function is made unique by a number behind it.              *)
(* A value is a 32-bit constant, the result                                *)
(* of the instruction at a position of a function's entry block, a global  *)
(* string, or poison.  A slot is the value of an alloca instruction.       *)
(* The operators thread cg, the CodeGen object: the module and who holds   *)
(* it, the symbol table, the insertion point, and whether the process has  *)
(* crashed on the way (a null or dangling pointer was followed); ub is the *)
(* outcome a use of a destroyed module is to have.                         *)
(***************************************************************************)
\* llvm::Expected<T> / llvm::Error with the state; threw marks a C++ exception
GOk(value, cg) == [ok |-> TRUE, threw |-> FALSE, value |-> value, error |-> <<>>, cg |-> cg]
GErr(error, cg) == [ok |-> FALSE, threw |-> FALSE, value |-> <<>>, error |-> error, cg |-> cg]
GThrow(what, cg) == [ok |-> FALSE, threw |-> TRUE, value |-> <<>>, error |-> what, cg |-> cg]

\* llvm::Value
Const(n) == [kind |-> "const", n |-> n, fn |-> 0, at |-> 0]
Inst(fn, at) == [kind |-> "inst", n |-> 0, fn |-> fn, at |-> at]
Global(at) == [kind |-> "global", n |-> 0, fn |-> 0, at |-> at]
Declared(at) == [kind |-> "function", n |-> 0, fn |-> 0, at |-> at]
Defined(fn) == [kind |-> "function", n |-> 0, fn |-> fn, at |-> 0]
Printf == <<"p","r","i","n","t","f">>
Poison == [kind |-> "poison", n |-> 0, fn |-> 0, at |-> 0]
NullSlot == [kind |-> "null", n |-> 0, fn |-> 0, at |-> 0]

Instr(op, name, operands) == [op |-> op, name |-> name, operands |-> operands]

\* the decimal digits
DigitChars == <<"0", "1", "2", "3", "4", "5", "6", "7", "8", "9">>

\* raw_ostream << unsigned: the decimal numeral of n
RECURSIVE UniqueSuffix(_)
UniqueSuffix(n) ==
  IF n < 10 THEN <<DigitChars[n + 1]>>
  ELSE UniqueSuffix(n \div 10) \o <<DigitChars[(n % 10) + 1]>>

\* the names in the symbol table of a function: its entry block and the
\* named instructions
SymbolNames(func) ==
  { <<"e","n","t","r","y">> }
    \cup { func.entry[k].name : k \in { j \in 1..Len(func.entry) : func.entry[j].name # <<>> } }

\* ValueSymbolTable::makeUniqueName: the base name with the next number of
\* the table's counter behind it (after a dot for a global value), until the
\* name is free
RECURSIVE makeUniqueName(_, _, _, _)
makeUniqueName(taken, base, dot, last) ==
  LET candidate == base \o dot \o UniqueSuffix(last + 1)
  IN IF candidate \in taken
       THEN makeUniqueName(taken, base, dot, last + 1)
       ELSE [name |-> candidate, last_unique |-> last + 1]

\* the option non-global-value-max-name-size (Value.cpp)
NonGlobalValueMaxNameSize == 1024

\* Value::setName of an instruction in a function: the name is cut to the
\* size limit of the names of non-global values; then no name stays no name,
\* a free name is taken as it is, a used one is made unique
setName(func, name) ==
  LET NameRef == IF Len(name) > NonGlobalValueMaxNameSize
                   THEN SubSeq(name, 1, NonGlobalValueMaxNameSize) ELSE name
  IN IF NameRef = <<>> \/ NameRef \notin SymbolNames(func)
       THEN [name |-> NameRef, last_unique |-> func.last_unique]
       ELSE makeUniqueName(SymbolNames(func), NameRef, <<>>, func.last_unique)

\* CodeGen::CodeGen: the object after construction
CodeGen ==
  [module |-> [functions |-> <<>>, globals |-> <<>>, declarations |-> <<>>,
               last_unique |-> 0],
   variables |-> <<>>, owner |-> "CodeGen", ip |-> "none", crashed |-> FALSE,
   ub |-> "crash"]

\* what a use of the memory of a destroyed module may do: end the process, or
\* go on as if the module were still there
UBOutcomes == {"crash", "silent"}

\* the process ends on a pointer that is null or dangling
Crash(cg) == [value |-> NullSlot, cg |-> [cg EXCEPT !.crashed = TRUE]]

\* IRBuilder::Insert at the insertion point, the end of the entry block of
\* the function created last, under the name the symbol table of the
\* function grants; the value is the new instruction.  Without an insertion
\* block, or with one of a function in no module, a ret is created outside
\* the module and every other instruction ends the process (CreateAlloca,
\* CreateLoad and CreateStore read the data layout of the block's module);
\* in the block of a destroyed module the behaviour is undefined
Insert(cg, instr) ==
  IF cg.crashed THEN [value |-> NullSlot, cg |-> cg]
  ELSE IF cg.ip # "module"
    THEN IF instr.op = "ret" THEN [value |-> NullSlot, cg |-> cg] ELSE Crash(cg)
  ELSE IF cg.owner = "nobody" /\ cg.ub = "crash" THEN Crash(cg)
  ELSE LET f == Len(cg.module.functions)
           named == setName(cg.module.functions[f], instr.name)
           cg1 == [cg EXCEPT !.module.functions[f].entry =
                               Append(@, [instr EXCEPT !.name = named.name]),
                             !.module.functions[f].last_unique = named.last_unique]
       IN [value |-> Inst(f, Len(cg1.module.functions[f].entry)), cg |-> cg1]

\* the two's-complement range of llvm::APInt(32, ...)
I32Max == 2147483647
I32Min == -I32Max - 1

\* 32-bit wrapping addition, subtraction and multiplication
AddI32(a, b) ==
  IF a > 0 /\ b > 0 /\ a > I32Max - b THEN I32Min + (a - (I32Max - b) - 1)
  ELSE IF a < 0 /\ b < 0 /\ (a - I32Min) + b < 0 THEN ((a - I32Min) + b) - I32Min
  ELSE a + b

SubI32(a, b) ==
  IF b = I32Min THEN AddI32(AddI32(a, I32Max), 1) ELSE AddI32(a, -b)

\* m * 2^k in 32 bits, for m >= 0
ShlI32(m, k) ==
  LET w == 2 ^ (32 - k)
      r == m % w
  IN (IF r >= w \div 2 THEN r - w ELSE r) * (2 ^ k)

\* the product from 16-bit halves (the low half of a in two bytes), so that
\* no intermediate result leaves the 32 bits
MulI32(a, b) ==
  LET aL == a % 65536
      aH == (a - aL) \div 65536
      bL == b % 65536
      bH == (b - bL) \div 65536
      a0 == aL % 256
      a1 == aL \div 256
      mid == ((aH * bL) % 65536) + ((aL * bH) % 65536)
  IN AddI32(AddI32(a0 * bL, ShlI32(a1 * bL, 8)), ShlI32(mid, 16))

\* signed division, truncating toward zero (b # 0, not INT_MIN / -1): the
\* floor quotient, one more when the signs differ and the division is inexact
SDivI32(a, b) ==
  IF b = I32Min THEN (IF a = I32Min THEN 1 ELSE 0)
  ELSE LET q == a \div b
           m == IF b > 0 THEN b ELSE -b
       IN IF a % m # 0 /\ ((a < 0) # (b < 0)) THEN q + 1 ELSE q

\* the IRBuilder's ConstantFolder on two constant operands: no instruction,
\* the folded constant; a division by zero or INT_MIN / -1 folds to poison
FoldBinOp(op, lhs, rhs) ==
  IF lhs.kind = "poison" \/ rhs.kind = "poison" THEN Poison
  ELSE CASE op = "plus" -> Const(AddI32(lhs.n, rhs.n))
         [] op = "minus" -> Const(SubI32(lhs.n, rhs.n))
         [] op = "star" -> Const(MulI32(lhs.n, rhs.n))
         [] op = "fslash" ->
              IF rhs.n = 0 \/ (lhs.n = I32Min /\ rhs.n = -1)
                THEN Poison
                ELSE Const(SDivI32(lhs.n, rhs.n))

IsConstant(v) == v.kind \in {"const", "poison"}

\* IRBuilder::CreateAdd / CreateSub / CreateMul / CreateSDiv
CreateBinOp(cg, op, name, lhs, rhs) ==
  IF IsConstant(lhs) /\ IsConstant(rhs)
    THEN [value |-> FoldBinOp(op, lhs, rhs), cg |-> cg]
    ELSE Insert(cg, Instr(CASE op = "plus" -> "add" [] op = "minus" -> "sub"
                            [] op = "star" -> "mul" [] op = "fslash" -> "sdiv",
                          name, <<lhs, rhs>>))

\* CodeGen::createInt32
createInt32(value) == Const(value)

\* CodeGen::createVariableAlloca
createVariableAlloca(cg, name) == Insert(cg, Instr("alloca", name, <<>>))

\* mutant: a constant zero divisor is refused
generateBinaryOp_ZeroCheck(cg, lhs, rhs, op) ==
  IF op = "fslash" /\ rhs = Const(0)
    THEN GErr(<<"Division by zero">>, cg)
    ELSE IF op \in {"plus", "minus", "star", "fslash"}
      THEN LET r == CreateBinOp(cg, op,
                                CASE op = "plus" -> <<"a","d","d","t","m","p">>
                                  [] op = "minus" -> <<"s","u","b","t","m","p">>
                                  [] op = "star" -> <<"m","u","l","t","m","p">>
                                  [] op = "fslash" -> <<"d","i","v","t","m","p">>,
                                lhs, rhs)
           IN GOk(r.value, r.cg)
      ELSE GErr(<<"Unsupported binary operator">>, cg)

\* CodeGen::generateBinaryOp
generateBinaryOp(cg, lhs, rhs, op) ==
  IF op \in {"plus", "minus", "star", "fslash"}
    THEN LET r == CreateBinOp(cg, op,
                              CASE op = "plus" -> <<"a","d","d","t","m","p">>
                                [] op = "minus" -> <<"s","u","b","t","m","p">>
                                [] op = "star" -> <<"m","u","l","t","m","p">>
                                [] op = "fslash" -> <<"d","i","v","t","m","p">>,
                              lhs, rhs)
         IN GOk(r.value, r.cg)
    ELSE GErr(<<"Unsupported binary operator">>, cg)

\* CodeGen::variableExists
variableExists(cg, name) == name \in DOMAIN cg.variables

\* variables[varName] = alloca
Bind(m, name, slot) ==
  [n \in (DOMAIN m) \cup {name} |-> IF n = name THEN slot ELSE m[n]]

\* token.value.value_or(other)
value_or(token, other) == IF token.value = <<>> THEN other ELSE token.value[1]

\* the values of the decimal digits
DigitValue(c) == (CHOOSE d \in 1..Len(DigitChars) : DigitChars[d] = c) - 1

RECURSIVE StripZeros(_)
StripZeros(text) ==
  IF Len(text) > 1 /\ text[1] = "0" THEN StripZeros(Tail(text)) ELSE text

RECURSIVE DecimalValue(_)
DecimalValue(text) ==
  IF text = <<>> THEN 0
  ELSE DecimalValue(SubSeq(text, 1, Len(text) - 1)) * 10 + DigitValue(text[Len(text)])

\* std::stoi on a run of decimal digits: the value, or std::out_of_range
\* when it does not fit an int
stoi(text) ==
  LET s == StripZeros(text)
      head == DecimalValue(SubSeq(s, 1, Len(s) - 1))
      last == DigitValue(s[Len(s)])
  IN IF Len(s) < 10
       THEN [ok |-> TRUE, value |-> DecimalValue(s)]
       ELSE IF Len(s) = 10 /\ (head < I32Max \div 10
                                \/ (head = I32Max \div 10 /\ last <= I32Max % 10))
         THEN [ok |-> TRUE, value |-> head * 10 + last]
         ELSE [ok |-> FALSE, value |-> 0]

\* mutant: a literal beyond the int range becomes the largest int
generateIntegerLiteral_Saturating(token, cg) ==
  LET val == stoi(value_or(token, <<"0">>))
  IN IF val.ok THEN GOk(createInt32(val.value), cg)
     ELSE GOk(createInt32(I32Max), cg)

\* CodeGen::generateIntegerLiteral
generateIntegerLiteral(token, cg) ==
  LET val == stoi(value_or(token, <<"0">>))
  IN IF val.ok THEN GOk(createInt32(val.value), cg)
     ELSE GThrow(<<"std::out_of_range">>, cg)

\* mutant: no check of the symbol table before the load
generateVariableAccess_NoCheck(token, cg) ==
  LET varName == value_or(token, <<>>)
      r == Insert(cg, Instr("load", varName,
                            <<IF variableExists(cg, varName)
                                THEN cg.variables[varName] ELSE NullSlot>>))
  IN GOk(r.value, r.cg)

\* CodeGen::generateVariableAccess
generateVariableAccess(token, cg) ==
  LET varName == value_or(token, <<>>)
  IN IF ~variableExists(cg, varName)
       THEN GErr(<<"Undefined variable: ">> \o varName, cg)
       ELSE LET r == Insert(cg, Instr("load", varName, <<cg.variables[varName]>>))
            IN GOk(r.value, r.cg)

\* CodeGen::generatePrimary
generatePrimary(primary, cg) ==
  IF primary.int_lit # <<>> THEN generateIntegerLiteral(primary.int_lit[1], cg)
  ELSE IF primary.ident # <<>> THEN generateVariableAccess(primary.ident[1], cg)
  ELSE GErr(<<"Invalid primary expression">>, cg)

\* mutant: the right operand is lowered before the left primary
RECURSIVE generateExpr(_, _)
generateBinaryExpression_RhsFirst(bin, cg) ==
  AndThen(generateExpr(bin.rhs, cg), LAMBDA rhs :
  AndThen(generatePrimary(bin.lhs, rhs.cg), LAMBDA lhs :
  generateBinaryOp(lhs.cg, lhs.value, rhs.value, bin.op.type)))

\* CodeGen::generateExpr and CodeGen::generateBinaryExpression
generateBinaryExpression(bin, cg) ==
  AndThen(generatePrimary(bin.lhs, cg), LAMBDA lhs :
  AndThen(generateExpr(bin.rhs, lhs.cg), LAMBDA rhs :
  generateBinaryOp(rhs.cg, lhs.value, rhs.value, bin.op.type)))

generateExpr(expr, cg) ==
  CASE expr.var = "ASTPrimaryExpr" -> generatePrimary(expr.primary, cg)
    [] expr.var = "ASTBinaryExpr" -> generateBinaryExpression(expr, cg)
    [] OTHER -> GErr(<<"Invalid expression type">>, cg)

\* CodeGen::getOrCreatePrintfFunction: Module::getOrInsertFunction hands out
\* the function of the module named printf, and declares one when there is
\* none; it is called through the member module, which is null once
\* getModule() was called
getOrCreatePrintfFunction(cg) ==
  IF cg.crashed \/ cg.owner # "CodeGen" THEN Crash(cg)
  ELSE IF \E k \in 1..Len(cg.module.functions) : cg.module.functions[k].name = Printf
    THEN [value |-> Defined(CHOOSE k \in 1..Len(cg.module.functions) :
                              cg.module.functions[k].name = Printf),
          cg |-> cg]
    ELSE IF \E k \in 1..Len(cg.module.declarations) : cg.module.declarations[k] = Printf
      THEN [value |-> Declared(CHOOSE k \in 1..Len(cg.module.declarations) :
                                 cg.module.declarations[k] = Printf),
            cg |-> cg]
      ELSE [value |-> Declared(Len(cg.module.declarations) + 1),
            cg |-> [cg EXCEPT !.module.declarations = Append(@, Printf)]]

\* CodeGen::createFormatString: a new global string per call, in the module
\* of the insertion block (IRBuilder::CreateGlobalString)
createFormatString(cg) ==
  IF cg.crashed \/ cg.ip # "module" THEN Crash(cg)
  ELSE [value |-> Global(Len(cg.module.globals) + 1),
        cg |-> [cg EXCEPT !.module.globals = Append(@, <<"%d\n">>)]]

\* CodeGen::createPrintFunction
createPrintFunction(cg, value) ==
  LET printfFunc == getOrCreatePrintfFunction(cg)
      formatStr == createFormatString(printfFunc.cg)
  IN Insert(formatStr.cg,
            Instr("call", <<>>, <<printfFunc.value, formatStr.value, value>>)).cg

\* mutant: the slot is allocated before the duplicate check
generateLetStatement_AllocaFirst(stmt, cg) ==
  LET varName == value_or(stmt.ident, <<>>)
      alloca == createVariableAlloca(cg, varName)
  IN IF variableExists(cg, varName)
       THEN GErr(<<"Variable '">> \o varName \o <<"' is already declared in this scope">>,
                 alloca.cg)
       ELSE AndThen(generateExpr(stmt.expr,
                                 [alloca.cg EXCEPT !.variables = Bind(@, varName, alloca.value)]),
                    LAMBDA initValue :
              GOk(<<>>, Insert(initValue.cg,
                               Instr("store", <<>>, <<initValue.value, alloca.value>>)).cg))

\* mutant: the store goes to the slot the entry block allocated first
generateLetStatement_FirstSlot(stmt, cg) ==
  LET varName == value_or(stmt.ident, <<>>)
  IN IF variableExists(cg, varName)
       THEN GErr(<<"Variable '">> \o varName \o <<"' is already declared in this scope">>, cg)
       ELSE LET alloca == createVariableAlloca(cg, varName)
            IN AndThen(generateExpr(stmt.expr,
                                    [alloca.cg EXCEPT !.variables = Bind(@, varName, alloca.value)]),
                       LAMBDA initValue :
                 GOk(<<>>, Insert(initValue.cg,
                                  Instr("store", <<>>,
                                        <<initValue.value, Inst(Len(cg.module.functions), 1)>>)).cg))

\* CodeGen::generateLetStatement
generateLetStatement(stmt, cg) ==
  LET varName == value_or(stmt.ident, <<>>)
  IN IF variableExists(cg, varName)
       THEN GErr(<<"Variable '">> \o varName \o <<"' is already declared in this scope">>, cg)
       ELSE LET alloca == createVariableAlloca(cg, varName)
            IN AndThen(generateExpr(stmt.expr,
                                    [alloca.cg EXCEPT !.variables = Bind(@, varName, alloca.value)]),
                       LAMBDA initValue :
                 GOk(<<>>, Insert(initValue.cg,
                                  Instr("store", <<>>, <<initValue.value, alloca.value>>)).cg))

\* CodeGen::generatePrintStatement
generatePrintStatement(stmt, cg) ==
  AndThen(generateExpr(stmt.expr, cg), LAMBDA result :
  GOk(<<>>, createPrintFunction(result.cg, result.value)))

\* CodeGen::generateExpressionStatement
generateExpressionStatement(stmt, cg) ==
  AndThen(generateExpr(stmt.expr, cg), LAMBDA result : GOk(<<>>, result.cg))

\* CodeGen::generateReturnStatement
generateReturnStatement(stmt, cg) ==
  AndThen(generateExpr(stmt.expr, cg), LAMBDA result :
  GOk(<<>>, Insert(result.cg, Instr("ret", <<>>, <<result.value>>)).cg))

\* CodeGen::generate_statement
generate_statement(stmt, cg) ==
  CASE stmt.var = "ASTLetStmt" -> generateLetStatement(stmt.node, cg)
    [] stmt.var = "ASTPrintStmt" -> generatePrintStatement(stmt.node, cg)
    [] stmt.var = "ASTExprStmt" -> generateExpressionStatement(stmt.node, cg)
    [] stmt.var = "ASTReturnStmt" -> generateReturnStatement(stmt.node, cg)
    [] OTHER -> GErr(<<"Unknown statement type">>, cg)

\* the names in the symbol table of the module: its functions and the
\* functions it declares
ModuleNames(m) ==
  { m.functions[k].name : k \in 1..Len(m.functions) }
    \cup { m.declarations[k] : k \in 1..Len(m.declarations) }

\* CodeGen::createFunction: llvm::Function::Create in module.get(), under the
\* name the symbol table of the module grants; with the member null the
\* function is in no module
createFunction(cg, name) ==
  IF cg.owner # "CodeGen" THEN cg
  ELSE LET named == IF name = <<>> \/ name \notin ModuleNames(cg.module)
                      THEN [name |-> name, last_unique |-> cg.module.last_unique]
                      ELSE makeUniqueName(ModuleNames(cg.module), name, <<".">>,
                                          cg.module.last_unique)
       IN [cg EXCEPT !.module.functions =
                       Append(@, [name |-> named.name, entry |-> <<>>, last_unique |-> 0]),
                     !.module.last_unique = named.last_unique]

\* where the entry block of the function createFunction just made is
EntryOf(cg) == IF cg.owner = "CodeGen" THEN "module" ELSE "orphan"

\* mutant: the symbol table survives into the next function
setupFunctionBody_NoClear(cg) == [cg EXCEPT !.ip = EntryOf(cg)]

\* CodeGen::setupFunctionBody: the entry block, SetInsertPoint, variables.clear()
setupFunctionBody(cg) == [cg EXCEPT !.ip = EntryOf(cg), !.variables = <<>>]

\* mutant: the default return is added whatever the body holds
addDefaultReturnIfNeeded_Always(cg, body) ==
  Insert(cg, Instr("ret", <<>>, <<createInt32(0)>>)).cg

\* CodeGen::addDefaultReturnIfNeeded
addDefaultReturnIfNeeded(cg, body) ==
  LET has_return == \E k \in 1..Len(body) : body[k].var = "ASTReturnStmt"
  IN IF ~has_return
       THEN Insert(cg, Instr("ret", <<>>, <<createInt32(0)>>)).cg
       ELSE cg

\* CodeGen::generateFunctionBody: the error of a statement gets the function's name
InFunction(result, funcName) ==
  IF result.ok \/ result.threw THEN result
  ELSE GErr(<<"In function '">> \o funcName \o <<"': ">> \o result.error, result.cg)

RECURSIVE generateFunctionBody(_, _, _, _)
generateFunctionBody(body, k, funcName, cg) ==
  IF k > Len(body) THEN GOk(<<>>, cg)
  ELSE AndThen(InFunction(generate_statement(body[k], cg), funcName), LAMBDA result :
         generateFunctionBody(body, k + 1, funcName, result.cg))

\* CodeGen::generate_function
generate_function(func, cg) ==
  AndThen(generateFunctionBody(func.body, 1, value_or(func.name, <<"u","n","k","n","o","w","n">>),
            setupFunctionBody(createFunction(cg,
              value_or(func.name, <<"u","n","k","n","o","w","n">>)))),
          LAMBDA result : GOk(<<>>, addDefaultReturnIfNeeded(result.cg, func.body)))

\* CodeGen::generate, the loop over the functions from the k-th on
RECURSIVE generate_loop(_, _, _)
generate_loop(functions, k, cg) ==
  IF k > Len(functions) THEN GOk(<<>>, cg)
  ELSE AndThen(generate_function(functions[k], cg), LAMBDA result :
         generate_loop(functions, k + 1, result.cg))

\* CodeGen::generate on a CodeGen object just constructed
generate(prog) == generate_loop(prog.functions, 1, CodeGen)

\* ---- the inputs of the code generator: the ASTs the parser builds
MaxStmts == 3

\* the statements of the function bodies, as lexemes (DivStmts has those
\* whose divisions are lowered with every form of divisor)
GenStmts ==
  { <<Lx("let"), Id(<<"x">>), Lx("eq"), IntLit(<<"5">>), Lx("semi")>>,
    <<Lx("let"), Id(<<"x">>), Lx("eq"), Id(<<"x">>), Lx("plus"), IntLit(<<"1">>), Lx("semi")>>,
    <<Lx("let"), Id(<<"y">>), Lx("eq"), Id(<<"x">>), Lx("star"), Id(<<"y">>), Lx("semi")>>,
    <<Lx("print"), Lx("open_paren"), Id(<<"y">>), Lx("close_paren"), Lx("semi")>>,
    <<Lx("print"), Lx("open_paren"), IntLit(<<"6">>), Lx("fslash"), IntLit(<<"0">>),
      Lx("close_paren"), Lx("semi")>>,
    <<Lx("ret"), Id(<<"x">>), Lx("semi")>>,
    <<Lx("ret"), IntLit(<<"1">>), Lx("plus"), IntLit(<<"2">>), Lx("star"), IntLit(<<"3">>),
      Lx("semi")>>,
    <<IntLit(<<"7">>), Lx("minus"), Id(<<"x">>), Lx("fslash"), Id(<<"z">>), Lx("semi")>>,
    <<Lx("ret"), IntLit(<<"1", "0">>), Lx("minus"), Id(<<"x">>), Lx("minus"), IntLit(<<"3">>),
      Lx("semi")>>,
    <<Lx("print"), Lx("open_paren"), Id(<<"x">>), Lx("fslash"), IntLit(<<"0">>),
      Lx("close_paren"), Lx("semi")>> }

RECURSIVE Flatten(_)
Flatten(seqs) == IF seqs = <<>> THEN <<>> ELSE Head(seqs) \o Flatten(Tail(seqs))

\* the ASTFunction parse_function builds for "name ( ) { statements }"
GenFunction(name, stmts) ==
  parse_function(Place(<<Id(name), Lx("open_paren"), Lx("close_paren"), Lx("open_curly")>>
                         \o Flatten(stmts) \o <<Lx("close_curly")>>),
                 PS(0)).value

GenBodies(n) == [1..n -> GenStmts]

\* identifiers beyond the size limit of the names of instructions, equal in
\* their first NonGlobalValueMaxNameSize characters
LongName == [k \in 1..(NonGlobalValueMaxNameSize + 1) |-> "v"]
LongerName == LongName \o <<"w">>

\* statements on the long identifiers
MaxLongStmts == 2
LongStmts ==
  { <<Lx("let"), Id(LongName), Lx("eq"), IntLit(<<"5">>), Lx("semi")>>,
    <<Lx("let"), Id(LongerName), Lx("eq"), Id(LongName), Lx("plus"), IntLit(<<"1">>),
      Lx("semi")>>,
    <<Lx("ret"), Id(LongName), Lx("semi")>> }

LongBodies(n) == [1..n -> LongStmts]

\* statements with a division: the divisor a literal other than 0, the
\* literal 0, an identifier, an expression on an identifier, and expressions
\* on literals (8 / 3 - 1 is 8 / 2, 9 / 1 - 1 is 9 / 0, 7 / 0 - 2 is 7 / -2)
MaxDivStmts == 2
DivStmts ==
  { <<Lx("print"), Lx("open_paren"), Id(<<"x">>), Lx("fslash"), IntLit(<<"2">>),
      Lx("close_paren"), Lx("semi")>>,
    <<Lx("ret"), Id(<<"x">>), Lx("fslash"), IntLit(<<"0">>), Lx("semi")>>,
    <<Lx("print"), Lx("open_paren"), IntLit(<<"6">>), Lx("fslash"), Id(<<"x">>),
      Lx("close_paren"), Lx("semi")>>,
    <<Lx("print"), Lx("open_paren"), IntLit(<<"8">>), Lx("fslash"), Id(<<"x">>), Lx("minus"),
      IntLit(<<"1">>), Lx("close_paren"), Lx("semi")>>,
    <<Lx("print"), Lx("open_paren"), IntLit(<<"7">>), Lx("fslash"), IntLit(<<"2">>),
      Lx("close_paren"), Lx("semi")>>,
    <<Lx("print"), Lx("open_paren"), IntLit(<<"7">>), Lx("fslash"), IntLit(<<"0">>), Lx("minus"),
      IntLit(<<"2">>), Lx("close_paren"), Lx("semi")>>,
    <<Lx("ret"), IntLit(<<"8">>), Lx("fslash"), IntLit(<<"3">>), Lx("minus"), IntLit(<<"1">>),
      Lx("semi")>>,
    <<Lx("let"), Id(<<"y">>), Lx("eq"), IntLit(<<"9">>), Lx("fslash"), IntLit(<<"1">>),
      Lx("minus"), IntLit(<<"1">>), Lx("semi")>>,
    <<Id(<<"x">>), Lx("fslash"), Id(<<"x">>), Lx("semi")>> }

DivBodies(n) == [1..n -> DivStmts]

\* programs of one function (main) or two (main, f), max statements in all
GenInputs(max) ==
  { [functions |-> <<GenFunction(<<"m","a","i","n">>, body)>>] :
      body \in UNION { GenBodies(n) : n \in 0..max } }
  \cup
  { [functions |-> <<GenFunction(<<"m","a","i","n">>, p[1]), GenFunction(<<"f">>, p[2])>>] :
      p \in UNION { UNION { GenBodies(a) \X GenBodies(b) : b \in 0..(max - a) } :
                      a \in 0..max } }

\* programs of one function (main) on the long identifiers
LongInputs(max) ==
  { [functions |-> <<GenFunction(<<"m","a","i","n">>, body)>>] :
      body \in UNION { LongBodies(n) : n \in 1..max } }

\* programs of one function (main) that binds x and goes on with divisions
DivInputs(max) ==
  { [functions |-> <<GenFunction(<<"m","a","i","n">>,
                                 <<<<Lx("let"), Id(<<"x">>), Lx("eq"), IntLit(<<"5">>), Lx("semi")>>>>
                                   \o body)>>] :
      body \in UNION { DivBodies(n) : n \in 1..max } }

\* ---- the code generator as a state machine
\* the CodeGen object as the variables hold it
CGWith(ub) ==
  [module |-> module, variables |-> variables, owner |-> gen_owner, ip |-> gen_ip,
   crashed |-> FALSE, ub |-> ub]

CG == CGWith("crash")

\* a call of the public interface
Call(name, arg) == [call |-> name, arg |-> arg]

\* gen_first when generate() ends with pc, error and the object holds the
\* module held: the first call on the first object is recorded; calls is to
\* be the number of calls made on that object
FirstEnded(pc, error, held) ==
  IF gen_pass = 1 /\ gen_log = <<Call("generate", <<>>)>>
    THEN <<[pc |-> pc, error |-> error, module |-> held, calls |-> 1]>>
    ELSE gen_first

\* gen_made with the function at the insertion point marked
Marked(status) ==
  IF gen_ip = "module" THEN [gen_made EXCEPT ![Len(gen_made)].status = status]
  ELSE gen_made

\* func.name.value.value_or("unknown") of the function being lowered
FuncName == value_or(gen_program.functions[gen_fi + 1].name, <<"u","n","k","n","o","w","n">>)
FuncBody == gen_program.functions[gen_fi + 1].body

\* CodeGen::CodeGen, and generate() entered with a program
GenInit ==
  /\ NoTokenizer
  /\ NoReporter
  /\ NoMain
  /\ NoLexer
  /\ NoParser
  /\ gen_program \in GenInputs(MaxStmts) \cup LongInputs(MaxLongStmts) \cup DivInputs(MaxDivStmts)
  /\ module = CodeGen.module
  /\ variables = CodeGen.variables
  /\ gen_owner = CodeGen.owner
  /\ gen_ip = CodeGen.ip
  /\ gen_fi = 0
  /\ gen_si = 0
  /\ gen_pc = "generate"
  /\ gen_error = <<>>
  /\ gen_pass = 1
  /\ gen_first = <<>>
  /\ gen_log = <<Call("generate", <<>>)>>
  /\ gen_made = <<>>

\* generate_function(): createFunction and setupFunctionBody
GenerateFunctionBegin ==
  /\ gen_pc = "generate"
  /\ gen_fi < Len(gen_program.functions)
  /\ LET cg == setupFunctionBody(createFunction(CG, FuncName))
     IN /\ module' = cg.module
        /\ variables' = cg.variables
        /\ gen_ip' = cg.ip
        /\ gen_made' = IF cg.ip = "module"
                         THEN Append(gen_made, [body |-> FuncBody, status |-> "open",
                                                direct |-> 0])
                         ELSE gen_made
  /\ gen_si' = 0
  /\ gen_pc' = "body"
  /\ UNCHANGED <<gen_program, gen_fi, gen_error>>
  /\ UNCHANGED <<gen_pass, gen_first, gen_owner, gen_log>>
  /\ UNCHANGED <<lexVars, parVars, mainVars, repVars, tokVars>>

\* generateFunctionBody(): one iteration of the loop over the statements
GenerateStatement ==
  /\ gen_pc = "body"
  /\ gen_si < Len(FuncBody)
  /\ LET result == generate_statement(FuncBody[gen_si + 1], CG)
         error == IF result.threw THEN result.error
                  ELSE <<"In function '">> \o FuncName \o <<"': ">> \o result.error
         pc == IF result.threw THEN "threw" ELSE "failed"
     IN IF result.cg.crashed
          THEN /\ gen_pc' = "crashed"
               /\ UNCHANGED <<module, variables, gen_si, gen_error, gen_first, gen_made>>
          ELSE /\ module' = result.cg.module
               /\ variables' = result.cg.variables
               /\ IF result.ok
                    THEN /\ gen_si' = gen_si + 1
                         /\ gen_pc' = "body"
                         /\ UNCHANGED <<gen_error, gen_first, gen_made>>
                    ELSE /\ gen_si' = gen_si
                         /\ gen_pc' = pc
                         /\ gen_error' = error
                         /\ gen_first' = FirstEnded(pc, error, result.cg.module)
                         /\ gen_made' = Marked("failed")
  /\ UNCHANGED <<gen_program, gen_fi>>
  /\ UNCHANGED <<gen_pass, gen_owner, gen_ip, gen_log>>
  /\ UNCHANGED <<lexVars, parVars, mainVars, repVars, tokVars>>

\* generate_function(): the body is lowered; addDefaultReturnIfNeeded
GenerateFunctionEnd ==
  /\ gen_pc = "body"
  /\ gen_si = Len(FuncBody)
  /\ LET cg == addDefaultReturnIfNeeded(CG, FuncBody)
     IN /\ module' = cg.module
        /\ variables' = cg.variables
  /\ gen_made' = Marked("lowered")
  /\ gen_fi' = gen_fi + 1
  /\ gen_pc' = "generate"
  /\ UNCHANGED <<gen_program, gen_si, gen_error>>
  /\ UNCHANGED <<gen_pass, gen_first, gen_owner, gen_ip, gen_log>>
  /\ UNCHANGED <<lexVars, parVars, mainVars, repVars, tokVars>>

\* generate(): the loop over the functions is over
GenerateReturn ==
  /\ gen_pc = "generate"
  /\ gen_fi = Len(gen_program.functions)
  /\ gen_pc' = "done"
  /\ gen_first' = FirstEnded("done", gen_error, module)
  /\ UNCHANGED <<gen_program, module, variables, gen_fi, gen_si, gen_error>>
  /\ UNCHANGED <<gen_pass, gen_owner, gen_ip, gen_log, gen_made>>
  /\ UNCHANGED <<lexVars, parVars, mainVars, repVars, tokVars>>

\* mutant: the second CodeGen object goes on with the module of the first
ConstructAgain_SharedModule ==
  /\ gen_pass = 1
  /\ gen_pc \in {"done", "failed", "threw"}
  /\ gen_pass' = 2
  /\ module' = module
  /\ gen_made' = gen_made
  /\ variables' = CodeGen.variables
  /\ gen_owner' = CodeGen.owner
  /\ gen_ip' = CodeGen.ip
  /\ gen_log' = <<Call("generate", <<>>)>>
  /\ gen_fi' = 0
  /\ gen_si' = 0
  /\ gen_pc' = "generate"
  /\ gen_error' = <<>>
  /\ gen_first' = IF gen_first = <<>> THEN gen_first
                  ELSE <<[gen_first[1] EXCEPT !.calls = Len(gen_log)]>>
  /\ UNCHANGED gen_program
  /\ UNCHANGED <<lexVars, parVars, mainVars, repVars, tokVars>>

\* no call is in progress on the first CodeGen object: a second CodeGen
\* object is constructed, and its generate() entered with the same program
ConstructAgain ==
  /\ gen_pass = 1
  /\ gen_pc \in {"done", "failed", "threw"}
  /\ gen_pass' = 2
  /\ module' = CodeGen.module
  /\ variables' = CodeGen.variables
  /\ gen_owner' = CodeGen.owner
  /\ gen_ip' = CodeGen.ip
  /\ gen_log' = <<Call("generate", <<>>)>>
  /\ gen_made' = <<>>
  /\ gen_fi' = 0
  /\ gen_si' = 0
  /\ gen_pc' = "generate"
  /\ gen_error' = <<>>
  /\ gen_first' = IF gen_first = <<>> THEN gen_first
                  ELSE <<[gen_first[1] EXCEPT !.calls = Len(gen_log)]>>
  /\ UNCHANGED gen_program
  /\ UNCHANGED <<lexVars, parVars, mainVars, repVars, tokVars>>

GenNext ==
  \/ GenerateFunctionBegin \/ GenerateStatement \/ GenerateFunctionEnd \/ GenerateReturn
  \/ ConstructAgain

\* ---- the public interface of a CodeGen object, called in any order
MaxCallStmts == 1
MaxGenCalls == 3

\* the statements of the function bodies and of the direct calls, as lexemes
CallStmts ==
  { <<Lx("let"), Id(<<"x">>), Lx("eq"), IntLit(<<"5">>), Lx("semi")>>,
    <<Lx("let"), Id(<<"y">>), Lx("eq"), Id(<<"x">>), Lx("plus"), IntLit(<<"1">>), Lx("semi")>>,
    <<Lx("ret"), Id(<<"x">>), Lx("semi")>>,
    <<Lx("ret"), IntLit(<<"7">>), Lx("semi")>>,
    <<Lx("print"), Lx("open_paren"), IntLit(<<"7">>), Lx("close_paren"), Lx("semi")>> }

CallBodies(n) == [1..n -> CallStmts]

\* a body of two lets, the second reading the first, on short identifiers and
\* on the long ones
TwoLets(first, second) ==
  << <<Lx("let"), Id(first), Lx("eq"), IntLit(<<"5">>), Lx("semi")>>,
     <<Lx("let"), Id(second), Lx("eq"), Id(first), Lx("plus"), IntLit(<<"1">>), Lx("semi")>> >>

\* the program without a function, those of one function main (with a body of
\* up to max statements, or of two lets), and those of two functions
CallInputs(max) ==
  { [functions |-> <<>>] }
  \cup
  { [functions |-> <<GenFunction(<<"m","a","i","n">>, body)>>] :
      body \in UNION { CallBodies(n) : n \in 0..max }
                 \cup { TwoLets(<<"x">>, <<"y">>), TwoLets(LongName, LongerName) } }
  \cup
  { [functions |-> <<GenFunction(<<"m","a","i","n">>, <<s>>), GenFunction(<<"f">>, <<>>)>>] :
      s \in CallStmts }

\* the ASTStmt values a caller passes to generate_statement
CallStatements == { GenFunction(<<"f">>, <<s>>).body[1] : s \in CallStmts }

\* no call is in progress on the object, and the process lives
Callable == gen_pc \in {"constructed", "done", "failed", "threw"} /\ Len(gen_log) < MaxGenCalls

\* a CodeGen object is constructed; the caller holds a program
CallInit ==
  /\ NoTokenizer
  /\ NoReporter
  /\ NoMain
  /\ NoLexer
  /\ NoParser
  /\ gen_program \in CallInputs(MaxCallStmts)
  /\ module = CodeGen.module
  /\ variables = CodeGen.variables
  /\ gen_owner = CodeGen.owner
  /\ gen_ip = CodeGen.ip
  /\ gen_fi = 0
  /\ gen_si = 0
  /\ gen_pc = "constructed"
  /\ gen_error = <<>>
  /\ gen_pass = 1
  /\ gen_first = <<>>
  /\ gen_log = <<>>
  /\ gen_made = <<>>

\* generate(program) is called on the object, for the first time or again
CallGenerate ==
  /\ Callable
  /\ gen_log' = Append(gen_log, Call("generate", <<>>))
  /\ gen_fi' = 0
  /\ gen_si' = 0
  /\ gen_pc' = "generate"
  /\ gen_error' = <<>>
  /\ UNCHANGED <<gen_program, module, variables, gen_owner, gen_ip, gen_pass, gen_first,
                 gen_made>>
  /\ UNCHANGED <<lexVars, parVars, mainVars, repVars, tokVars>>

\* generate_statement(stmt) is called on the object: the statement goes to
\* wherever the builder's insertion point is, and its error comes back as it is
CallGenerateStatement ==
  /\ Callable
  /\ \E stmt \in CallStatements, ub \in UBOutcomes :
       LET result == generate_statement(stmt, CGWith(ub))
       IN /\ gen_log' = Append(gen_log, Call("generate_statement", <<stmt>>))
          /\ IF result.cg.crashed
               THEN /\ gen_pc' = "crashed"
                    /\ UNCHANGED <<module, variables, gen_error, gen_made>>
               ELSE /\ module' = result.cg.module
                    /\ variables' = result.cg.variables
                    /\ gen_pc' = IF result.ok THEN "done"
                                 ELSE IF result.threw THEN "threw" ELSE "failed"
                    /\ gen_error' = result.error
                    /\ gen_made' = IF gen_ip = "module"
                                     THEN [gen_made EXCEPT ![Len(gen_made)].direct = @ + 1]
                                     ELSE gen_made
  /\ UNCHANGED <<gen_program, gen_fi, gen_si, gen_owner, gen_ip, gen_pass, gen_first>>
  /\ UNCHANGED <<lexVars, parVars, mainVars, repVars, tokVars>>

\* generate_function(func) is called on the object with a function of the
\* program
CallGenerateFunction ==
  /\ Callable
  /\ \E k \in 1..Len(gen_program.functions) :
       LET func == gen_program.functions[k]
           result == generate_function(func, CG)
       IN /\ gen_log' = Append(gen_log, Call("generate_function", <<func>>))
          /\ IF result.cg.crashed
               THEN /\ gen_pc' = "crashed"
                    /\ UNCHANGED <<module, variables, gen_ip, gen_error, gen_made>>
               ELSE /\ module' = result.cg.module
                    /\ variables' = result.cg.variables
                    /\ gen_ip' = result.cg.ip
                    /\ gen_pc' = IF result.ok THEN "done"
                                 ELSE IF result.threw THEN "threw" ELSE "failed"
                    /\ gen_error' = result.error
                    /\ gen_made' = IF result.cg.ip = "module"
                                     THEN Append(gen_made,
                                                 [body |-> func.body,
                                                  status |-> IF result.ok THEN "lowered"
                                                             ELSE "failed",
                                                  direct |-> 0])
                                     ELSE gen_made
  /\ UNCHANGED <<gen_program, gen_fi, gen_si, gen_owner, gen_pass, gen_first>>
  /\ UNCHANGED <<lexVars, parVars, mainVars, repVars, tokVars>>

\* getModule() is called on the object: the module moves to the caller and
\* the member is null from then on (a further call hands out null)
CallGetModule ==
  /\ Callable
  /\ gen_log' = Append(gen_log, Call("getModule", <<>>))
  /\ gen_owner' = IF gen_owner = "CodeGen" THEN "caller" ELSE gen_owner
  /\ UNCHANGED <<gen_program, module, variables, gen_fi, gen_si, gen_pc, gen_error, gen_ip,
                 gen_pass, gen_first, gen_made>>
  /\ UNCHANGED <<lexVars, parVars, mainVars, repVars, tokVars>>

\* the caller lets go of the unique_ptr getModule() returned: the module is
\* destroyed, and the insertion point dangles when it was in the module
ModuleDestroyed ==
  /\ gen_owner = "caller"
  /\ gen_pc \in {"constructed", "done", "failed", "threw"}
  /\ gen_owner' = "nobody"
  /\ UNCHANGED <<gen_program, module, variables, gen_fi, gen_si, gen_pc, gen_error, gen_ip,
                 gen_pass, gen_first, gen_log, gen_made>>
  /\ UNCHANGED <<lexVars, parVars, mainVars, repVars, tokVars>>

CallNext ==
  \/ GenerateFunctionBegin \/ GenerateStatement \/ GenerateFunctionEnd \/ GenerateReturn
  \/ ConstructAgain
  \/ CallGenerate \/ CallGenerateStatement \/ CallGenerateFunction \/ CallGetModule
  \/ ModuleDestroyed

(***************************************************************************)
(* main (main.cpp): Tokenizer, Parser, CodeGen and write_llvm_ir in a row. *)
(* Each stage is one step; the stages are the operators below, the whole   *)
(* of tokenize(), parse() and generate().  main.cpp names the Tokenizer of *)
(* tokenization.hpp and hands the Program to the CodeGen of codegen.hpp,   *)
(* which lowers the AST of ast.hpp: the Parser here is that of ast.hpp.    *)
(***************************************************************************)
\* Tokenizer::Tokenizer (tokenization.hpp): the object after construction
Tokenizer(src) == [m_src |-> src, m_index |-> 0, m_line |-> 1, m_column |-> 1]

\* Tokenizer::tokenize, the loop from offset i on; a token takes m_line and
\* m_column as they are after its characters were consumed.  The loop ends
\* with m_index = 0 when it returns the tokens and leaves m_index at the
\* character it fails on; m_line and m_column stay as they are either way
RECURSIVE Tokenizer_loop(_, _, _, _, _)
Tokenizer_loop(source, i, ln, col, toks) ==
  IF i >= Len(source)
    THEN [ok |-> TRUE, value |-> toks, error |-> <<>>,
          self |-> [m_src |-> source, m_index |-> 0, m_line |-> ln, m_column |-> col]]
  ELSE LET current == At(source, i)
       IN CASE isalpha(current) ->
                 LET buf == <<current>> \o AlnumRun(source, i + 1)
                     type == CASE buf = <<"l","e","t">> -> "let"
                               [] buf = <<"p","r","i","n","t">> -> "print"
                               [] buf = <<"f","n">> -> "fn"
                               [] buf = <<"r","e","t","u","r","n">> -> "ret"
                               [] OTHER -> "ident"
                 IN Tokenizer_loop(source, i + Len(buf), ln, col + Len(buf),
                      Append(toks, Token(type, IF type = "ident" THEN <<buf>> ELSE <<>>,
                                          ln, col + Len(buf))))
            [] isdigit(current) ->
                 LET buf == <<current>> \o DigitRun(source, i + 1)
                 IN Tokenizer_loop(source, i + Len(buf), ln, col + Len(buf),
                      Append(toks, Token("int_lit", <<buf>>, ln, col + Len(buf))))
            [] current \in {"(", ")", "{", "}", "+", "-", "*", "=", ";"} ->
                 Tokenizer_loop(source, i + 1, ln, col + 1,
                   Append(toks, Token(CASE current = "(" -> "open_paren"
                                        [] current = ")" -> "close_paren"
                                        [] current = "{" -> "open_curly"
                                        [] current = "}" -> "close_curly"
                                        [] current = "+" -> "plus"
                                        [] current = "-" -> "minus"
                                        [] current = "*" -> "star"
                                        [] current = "=" -> "eq"
                                        [] current = ";" -> "semi",
                                      <<>>, ln, col + 1)))
            [] isspace(current) ->
                 IF current = "\n"
                   THEN Tokenizer_loop(source, i + 1, ln + 1, 2, toks)
                   ELSE Tokenizer_loop(source, i + 1, ln, col + 2, toks)
            [] OTHER ->
                 [ok |-> FALSE, value |-> <<>>,
                  error |-> LocatedError(<<"Unexpected character '", current, "'">>, ln, col),
                  self |-> [m_src |-> source, m_index |-> i, m_line |-> ln, m_column |-> col]]

\* Tokenizer::tokenize called on an object, in whatever state earlier calls
\* left it
Tokenizer_tokenize(self) ==
  Tokenizer_loop(self.m_src, self.m_index, self.m_line, self.m_column, <<>>)

\* Parser::parse, the loop over the functions and the main check
RECURSIVE Parser_parse_loop(_, _, _)
Parser_parse_loop(toks, ps, functions) ==
  IF peek(toks, ps) = <<>>
    THEN IF ~has_main_function(functions)
           THEN PErr(PlainError(<<"Program must have a 'main' function">>), ps)
           ELSE POk([functions |-> functions], [ps EXCEPT !.m_index = 0])
    ELSE IF peek(toks, ps)[1].type = "fn"
      THEN AndThen(parse_function(toks, consume(toks, ps).ps), LAMBDA func :
             Parser_parse_loop(toks, func.ps, Append(functions, func.value)))
      ELSE PErr(LocatedError(
                  <<"Expected function definition (top-level statements not allowed)">>,
                  peek(toks, ps)[1].line, peek(toks, ps)[1].column), ps)

\* Parser::parse; an exception (consume() past the end) leaves through main
Parser_parse(toks) ==
  LET r == Parser_parse_loop(toks, PS(0), <<>>)
  IN IF r.ps.threw THEN [ok |-> FALSE, threw |-> TRUE, value |-> <<>>,
                         error |-> PlainError(<<"std::out_of_range">>)]
     ELSE IF r.ok THEN [ok |-> TRUE, threw |-> FALSE, value |-> r.value, error |-> <<>>]
     ELSE [ok |-> FALSE, threw |-> FALSE, value |-> <<>>, error |-> r.error]

\* ---- the inputs of main: the contents of the input file
MaxMainPieces == 4

MainPieces ==
  { <<"f","n"," ","m","a","i","n","(",")","{">>,
    <<"f","n"," ","f","(",")","{">>,
    <<"}">>,
    <<"l","e","t"," ","x","=","5",";">>,
    <<"p","r","i","n","t","(","x",")",";">>,
    <<"r","e","t","u","r","n"," ","2","1","4","7","4","8","3","6","4","8",";">>,
    <<"x","/","2",";">> }

RECURSIVE MainSources(_)
MainSources(n) ==
  IF n = 0 THEN { <<>> }
  ELSE LET shorter == MainSources(n - 1)
       IN shorter \cup { s \o p : s \in shorter, p \in MainPieces }

\* ---- main as a state machine
\* a stage that main ran, and whether it succeeded
Stage(name, ok) == [stage |-> name, ok |-> ok]

\* what becomes of out.ll: raw_fd_ostream opens it and the writes succeed,
\* it cannot be opened, or it opens and a write fails
DiskStates == {"writable", "unopenable", "failing"}

\* the contents of out.ll after a write failed: a part of the module's text
Incomplete(m) == [part_of |-> m]

\* main is entered
MainInit ==
  /\ NoTokenizer
  /\ NoReporter
  /\ NoLexer
  /\ NoParser
  /\ NoCodeGen
  /\ main_argc \in {1, 2}
  /\ main_file \in {<<>>} \cup { <<s>> : s \in MainSources(MaxMainPieces) }
  /\ main_disk \in DiskStates
  /\ main_argc # 2 => main_file = <<>>
  /\ main_file = <<>> => main_disk = "writable"
  /\ main_pc = "arguments"
  /\ main_value = <<>>
  /\ main_trace = <<>>
  /\ main_exit = <<>>
  /\ out_ll = <<>>

\* main.cpp:64-68, "Validate arguments"
MainArguments ==
  /\ main_pc = "arguments"
  /\ main_trace' = Append(main_trace, Stage("arguments", main_argc = 2))
  /\ IF main_argc # 2
       THEN main_pc' = "exited" /\ main_exit' = <<1>>
       ELSE main_pc' = "read" /\ main_exit' = main_exit
  /\ UNCHANGED <<main_argc, main_file, main_disk, main_value, out_ll>>
  /\ UNCHANGED <<lexVars, parVars, genVars, repVars, tokVars>>

\* main.cpp:71-82, "Read source file"
MainReadFile ==
  /\ main_pc = "read"
  /\ main_trace' = Append(main_trace, Stage("read", main_file # <<>>))
  /\ IF main_file = <<>>
       THEN main_pc' = "exited" /\ main_exit' = <<1>> /\ main_value' = main_value
       ELSE main_pc' = "tokenize" /\ main_exit' = main_exit /\ main_value' = main_file[1]
  /\ UNCHANGED <<main_argc, main_file, main_disk, out_ll>>
  /\ UNCHANGED <<lexVars, parVars, genVars, repVars, tokVars>>

\* main.cpp:85-91, "Tokenize"
MainTokenize ==
  /\ main_pc = "tokenize"
  /\ LET tokens_result == Tokenizer_tokenize(Tokenizer(main_value))
     IN /\ main_trace' = Append(main_trace, Stage("tokenize", tokens_result.ok))
        /\ IF ~tokens_result.ok
             THEN main_pc' = "exited" /\ main_exit' = <<1>> /\ main_value' = main_value
             ELSE main_pc' = "parse" /\ main_exit' = main_exit
                  /\ main_value' = tokens_result.value
  /\ UNCHANGED <<main_argc, main_file, main_disk, out_ll>>
  /\ UNCHANGED <<lexVars, parVars, genVars, repVars, tokVars>>

\* mutant: a parse error is reported and main goes on with an empty program
MainParse_GoesOn ==
  /\ main_pc = "parse"
  /\ LET program_result == Parser_parse(main_value)
     IN /\ main_trace' = Append(main_trace, Stage("parse", program_result.ok))
        /\ main_pc' = "lower"
        /\ main_exit' = main_exit
        /\ main_value' = IF program_result.ok THEN program_result.value
                         ELSE [functions |-> <<>>]
  /\ UNCHANGED <<main_argc, main_file, main_disk, out_ll>>
  /\ UNCHANGED <<lexVars, parVars, genVars, repVars, tokVars>>

\* main.cpp:94-100, "Parse" (an exception ends main at 122-125)
MainParse ==
  /\ main_pc = "parse"
  /\ LET program_result == Parser_parse(main_value)
     IN /\ main_trace' = Append(main_trace, Stage("parse", program_result.ok))
        /\ IF ~program_result.ok
             THEN main_pc' = "exited" /\ main_exit' = <<1>> /\ main_value' = main_value
             ELSE main_pc' = "lower" /\ main_exit' = main_exit
                  /\ main_value' = program_result.value
  /\ UNCHANGED <<main_argc, main_file, main_disk, out_ll>>
  /\ UNCHANGED <<lexVars, parVars, genVars, repVars, tokVars>>

\* main.cpp:103-111, "Generate LLVM IR" (an exception ends main at 122-125)
MainGenerate ==
  /\ main_pc = "lower"
  /\ LET result == generate(main_value)
     IN /\ main_trace' = Append(main_trace, Stage("lower", result.ok))
        /\ IF ~result.ok
             THEN main_pc' = "exited" /\ main_exit' = <<1>> /\ main_value' = main_value
             ELSE main_pc' = "write" /\ main_exit' = main_exit
                  /\ main_value' = result.cg.module
  /\ UNCHANGED <<main_argc, main_file, main_disk, out_ll>>
  /\ UNCHANGED <<lexVars, parVars, genVars, repVars, tokVars>>

\* main.cpp:114-120, "Write output": write_llvm_ir, then EXIT_SUCCESS.
\* write_llvm_ir returns an error only when out.ll cannot be opened; when it
\* opens and a write fails, the destructor of the raw_fd_ostream finds the
\* error pending and ends the process through report_fatal_error, with
\* exit(1) or abort() (status 134), out.ll holding what was written so far
MainWrite ==
  /\ main_pc = "write"
  /\ main_trace' = Append(main_trace, Stage("write", main_disk = "writable"))
  /\ main_pc' = "exited"
  /\ CASE main_disk = "unopenable" -> main_exit' = <<1>> /\ out_ll' = out_ll
       [] main_disk = "failing" ->
            main_exit' \in {<<1>>, <<134>>} /\ out_ll' = <<Incomplete(main_value)>>
       [] OTHER -> main_exit' = <<0>> /\ out_ll' = <<main_value>>
  /\ UNCHANGED <<main_argc, main_file, main_disk, main_value>>
  /\ UNCHANGED <<lexVars, parVars, genVars, repVars, tokVars>>

MainNext ==
  \/ MainArguments \/ MainReadFile \/ MainTokenize \/ MainParse \/ MainGenerate
  \/ MainWrite

(***************************************************************************)
(* ErrorReporter (error_reporting.hpp).  A string is a sequence of          *)
(* characters; an ANSI colour code is one element, named after its constant. *)
(***************************************************************************)
\* the constructor's getline loop: the lines of source from offset i on, cur
\* being the characters read since the last newline; a last line without a
\* newline counts when it is not empty
RECURSIVE GetLines(_, _, _)
GetLines(source, i, cur) ==
  IF i >= Len(source) THEN (IF cur = <<>> THEN <<>> ELSE <<cur>>)
  ELSE IF At(source, i) = "\n" THEN <<cur>> \o GetLines(source, i + 1, <<>>)
  ELSE GetLines(source, i + 1, Append(cur, At(source, i)))

\* std::format("{}", n) for a size_t
RECURSIVE to_string(_)
to_string(n) ==
  IF n < 10 THEN <<DigitChars[n + 1]>>
  ELSE to_string(n \div 10) \o <<DigitChars[(n % 10) + 1]>>

\* a string of n spaces
RECURSIVE Spaces(_)
Spaces(n) == IF n <= 0 THEN <<>> ELSE <<" ">> \o Spaces(n - 1)

Min(a, b) == IF a <= b THEN a ELSE b

\* the header of both overloads: BOLD RED "Error:" RESET " " message
ErrorHeader(message) ==
  <<"BOLD", "RED", "E", "r", "r", "o", "r", ":", "RESET", " ">> \o message

\* "  {} | {}\n"
ContextLine(number, text) ==
  <<" ", " ">> \o to_string(number) \o <<" ", "|", " ">> \o text \o <<"\n">>

\* mutant: the caret goes to the column as given, beyond the end of the line too
format_error_NoClamp(lines, filename, message, ln, col) ==
  ErrorHeader(message)
    \o (IF filename = <<>> THEN <<>> ELSE <<" ", "i", "n", " ">> \o filename)
    \o <<"\n">>
    \o (IF ln > 0 /\ ln <= Len(lines)
          THEN (IF ln > 1 THEN ContextLine(ln - 1, lines[ln - 1]) ELSE <<>>)
                 \o ContextLine(ln, lines[ln])
                 \o Spaces(Len(<<" ", " ">> \o to_string(ln) \o <<" ", "|", " ">>) + col - 1)
                 \o <<"RED", "^", "RESET">>
          ELSE <<>>)

\* ErrorReporter::format_error(message, line, column)
format_error(lines, filename, message, ln, col) ==
  ErrorHeader(message)
    \o (IF filename = <<>> THEN <<>> ELSE <<" ", "i", "n", " ">> \o filename)
    \o <<"\n">>
    \o (IF ln > 0 /\ ln <= Len(lines)
          THEN (IF ln > 1 THEN ContextLine(ln - 1, lines[ln - 1]) ELSE <<>>)
                 \o ContextLine(ln, lines[ln])
                 \o Spaces(Len(<<" ", " ">> \o to_string(ln) \o <<" ", "|", " ">>)
                             + Min(col, Len(lines[ln]) + 1) - 1)
                 \o <<"RED", "^", "RESET">>
          ELSE <<>>)

\* ErrorReporter::format_error(message)
format_error_plain(message) == ErrorHeader(message)

\* ---- the inputs of the reporter
MaxSrcLines == 2
MaxColumn == 4

LineTexts == { <<>>, <<"a">>, <<"a", "b">> }

\* up to n lines, each but the last one ended by a newline
RECURSIVE JoinedLines(_)
JoinedLines(n) ==
  IF n = 0 THEN { <<>> }
  ELSE LET shorter == JoinedLines(n - 1)
       IN shorter \cup { t \o <<"\n">> \o s : t \in LineTexts, s \in shorter }

\* a source of ten or eleven lines, for line numbers of two digits
TenLines ==
  <<"a", "\n", "b", "\n", "c", "\n", "d", "\n", "e", "\n", "f", "\n", "g", "\n",
    "h", "\n", "i", "\n", "j", "k", "\n">>

ReporterSources ==
  JoinedLines(MaxSrcLines) \cup { s \o t : s \in JoinedLines(MaxSrcLines), t \in LineTexts }
    \cup { TenLines, TenLines \o <<"l">> }

\* ---- the reporter as a state machine
\* ErrorReporter::ErrorReporter
RepInit ==
  /\ NoTokenizer
  /\ NoLexer
  /\ NoParser
  /\ NoCodeGen
  /\ NoMain
  /\ m_source \in ReporterSources
  /\ m_filename \in { <<>>, <<"f", ".", "h">> }
  /\ m_lines = GetLines(m_source, 0, <<>>)
  /\ rep_pc = "constructed"
  /\ rep_call = <<>>
  /\ rep_result = <<>>

\* a call of format_error(message, line, column)
FormatErrorLocated ==
  /\ rep_pc = "constructed"
  /\ \E ln \in 0..(Len(m_lines) + 1), col \in 0..MaxColumn :
       /\ rep_call' = <<[message |-> <<"m">>, located |-> TRUE, line |-> ln, column |-> col]>>
       /\ rep_result' = format_error(m_lines, m_filename, <<"m">>, ln, col)
  /\ rep_pc' = "returned"
  /\ UNCHANGED <<m_source, m_filename, m_lines>>
  /\ UNCHANGED <<lexVars, parVars, genVars, mainVars, tokVars>>

\* a call of format_error(message)
FormatErrorPlain ==
  /\ rep_pc = "constructed"
  /\ rep_call' = <<[message |-> <<"m">>, located |-> FALSE, line |-> 0, column |-> 0]>>
  /\ rep_result' = format_error_plain(<<"m">>)
  /\ rep_pc' = "returned"
  /\ UNCHANGED <<m_source, m_filename, m_lines>>
  /\ UNCHANGED <<lexVars, parVars, genVars, mainVars, tokVars>>

RepNext == FormatErrorLocated \/ FormatErrorPlain

\* ---- main on the programs "fn main(){return <literal>;}"
MaxDigits == 2

\* runs of up to n of the digits 0, 1, 9
RECURSIVE DigitRuns(_)
DigitRuns(n) ==
  IF n = 0 THEN { <<>> }
  ELSE LET shorter == DigitRuns(n - 1)
       IN shorter \cup { <<c>> \o s : c \in {"0", "1", "9"}, s \in shorter }

\* short literals, and literals around 2^31 - 1, also behind zeros
Literals ==
  (DigitRuns(MaxDigits) \ { <<>> })
    \cup { z \o l : z \in { <<>>, <<"0">>, <<"0", "0">> },
                     l \in { <<"2","1","4","7","4","8","3","6","4","7">>,
                             <<"2","1","4","7","4","8","3","6","4","8">>,
                             <<"2","1","4","7","4","8","3","6","3","9">>,
                             <<"2","1","4","8","0","0","0","0","0","0">>,
                             <<"1","9","9","9","9","9","9","9","9","9">>,
                             <<"9","9","9","9","9","9","9","9","9">>,
                             <<"4","2","9","4","9","6","7","2","9","6">>,
                             <<"1","0","0","0","0","0","0","0","0","0","0">> } }

ReturnOf(literal) ==
  <<"f","n"," ","m","a","i","n","(",")","{","r","e","t","u","r","n"," ">>
    \o literal \o <<";","}">>

\* main is entered with such a file
LiteralInit ==
  /\ NoTokenizer
  /\ NoReporter
  /\ NoLexer
  /\ NoParser
  /\ NoCodeGen
  /\ main_argc = 2
  /\ main_file \in { <<ReturnOf(l)>> : l \in Literals }
  /\ main_disk \in DiskStates
  /\ main_pc = "arguments"
  /\ main_value = <<>>
  /\ main_trace = <<>>
  /\ main_exit = <<>>
  /\ out_ll = <<>>

\* ---- the lexer on short sources, for the runs that must come to an end
MaxFairPieces == 3

FairPieces ==
  { <<"l","e","t">>, <<"x">>, <<"1">>, <<" ">>, <<"\n">>, <<VT>>, <<"/">>, <<"@">> }

RECURSIVE FairSources(_)
FairSources(n) ==
  IF n = 0 THEN { <<>> }
  ELSE LET shorter == FairSources(n - 1)
       IN shorter \cup { s \o p : s \in shorter, p \in FairPieces }

\* Lexer::Lexer followed by the first lines of tokenize()
LexFairInit ==
  /\ NoTokenizer
  /\ NoReporter
  /\ NoMain
  /\ NoCodeGen
  /\ NoParser
  /\ m_src \in FairSources(MaxFairPieces)
  /\ index = 0
  /\ line = 1
  /\ column = 1
  /\ tokens = <<>>
  /\ lex_pc = "loop"
  /\ lex_error = <<>>
  /\ starts = <<>>

\* ---- the lexer on the sources of at most MaxRecPieces lexemes, for the
\* questions asked at every offset of the source
MaxRecPieces == 3

\* Lexer::Lexer followed by the first lines of tokenize()
RecInit ==
  /\ NoTokenizer
  /\ NoReporter
  /\ NoMain
  /\ NoCodeGen
  /\ NoParser
  /\ m_src \in Sources(MaxRecPieces)
  /\ index = 0
  /\ line = 1
  /\ column = 1
  /\ tokens = <<>>
  /\ lex_pc = "loop"
  /\ lex_error = <<>>
  /\ starts = <<>>

(***************************************************************************)
(* Specifications: each stage on its own inputs, the other stages absent   *)
(***************************************************************************)
\* ---- the Tokenizer as an object that is called more than once
MaxTokPieces == 3
MaxTokCalls == 2

TokPieces ==
  { <<"x">>, <<"1","2">>, <<" ">>, <<"\n">>, <<"@">>, <<"l","e","t">>, <<";">> }

RECURSIVE TokSources(_)
TokSources(n) ==
  IF n = 0 THEN { <<>> }
  ELSE LET shorter == TokSources(n - 1)
       IN shorter \cup { s \o p : s \in shorter, p \in TokPieces }

\* a Tokenizer is constructed on a source
TokInit ==
  /\ NoReporter
  /\ NoMain
  /\ NoLexer
  /\ NoParser
  /\ NoCodeGen
  /\ tokenizer \in { Tokenizer(src) : src \in TokSources(MaxTokPieces) }
  /\ tok_result = <<>>
  /\ tok_calls = 0

\* tokenize() is called on the object, for the first time or again
TokenizerTokenize ==
  /\ tokenizer # <<>>
  /\ tok_calls < MaxTokCalls
  /\ LET result == Tokenizer_tokenize(tokenizer)
     IN /\ tokenizer' = result.self
        /\ tok_result' = <<[ok |-> result.ok, value |-> result.value, error |-> result.error]>>
  /\ tok_calls' = tok_calls + 1
  /\ UNCHANGED <<lexVars, parVars, genVars, mainVars, repVars>>

TokNext == TokenizerTokenize

SpecLexer == LexInit /\ [][LexNext]_vars

SpecParser == ParInit /\ [][ParNext]_vars

SpecCodeGen == GenInit /\ [][GenNext]_vars

SpecMain == MainInit /\ [][MainNext]_vars

SpecReporter == RepInit /\ [][RepNext]_vars

SpecLiteral == LiteralInit /\ [][MainNext]_vars

\* tokenize() runs on: an iteration that can be taken is taken
SpecLexerFair == LexFairInit /\ [][LexNext]_vars /\ WF_vars(LexNext)

SpecRecognizers == RecInit /\ [][LexNext]_vars

SpecTokenizer == TokInit /\ [][TokNext]_vars

SpecCodeGenCalls == CallInit /\ [][CallNext]_vars

(***************************************************************************)
(* Lexer: properties                                                       *)
(***************************************************************************)
\* the 1-based line and column of the character at 0-based offset off
NewlinesBefore(source, off) == { j \in 1..off : source[j] = "\n" }
LineOf(source, off) == 1 + Cardinality(NewlinesBefore(source, off))
LastNewline(source, off) ==
  IF NewlinesBefore(source, off) = {} THEN 0
  ELSE CHOOSE j \in NewlinesBefore(source, off) :
         \A i \in NewlinesBefore(source, off) : i <= j
ColumnOf(source, off) == off - LastNewline(source, off) + 1

\* C6: when tokenize succeeds, every token carries the 1-based line and
\* column of its first character, the column counting every consumed
\* character (token characters and whitespace) since the last newline.
C6_TokenPositionsExact ==
  lex_pc = "returned" =>
    \A k \in 1..Len(tokens) :
      /\ tokens[k].line = LineOf(m_src, starts[k])
      /\ tokens[k].column = ColumnOf(m_src, starts[k])

\* (line, column) compared lexicographically
PosLeq(a, b) == a.line < b.line \/ (a.line = b.line /\ a.column <= b.column)

\* C7: the token sequence tokenize returns never steps back in
\* (line, column) from one token to the next.
C7_PositionsNonDecreasing ==
  lex_pc = "returned" =>
    \A k \in 1..(Len(tokens) - 1) : PosLeq(tokens[k], tokens[k + 1])

C7_Witness ==
  /\ lex_pc = "returned"
  /\ \E k \in 1..(Len(tokens) - 1) :
       /\ tokens[k + 1].line > tokens[k].line
       /\ tokens[k + 1].column < tokens[k].column

\* the maximal alphanumeric runs of the source that start with a letter: the
\* run that starts at 0-based offset a is source[a .. RunEnd(source, a) - 1]
RunStarts(source) ==
  { a \in 0..(Len(source) - 1) :
      isalpha(At(source, a)) /\ (a = 0 \/ ~isalnum(At(source, a - 1))) }

RunEnd(source, a) ==
  CHOOSE b \in (a + 1)..Len(source) :
    /\ \A j \in a..(b - 1) : isalnum(At(source, j))
    /\ b = Len(source) \/ ~isalnum(At(source, b))

RunText(source, a, b) == SubSeq(source, a + 1, b)

KeywordTypeOf(text) ==
  CASE text = <<"l","e","t">> -> "let"
    [] text = <<"p","r","i","n","t">> -> "print"
    [] text = <<"f","n">> -> "fn"
    [] text = <<"r","e","t","u","r","n">> -> "ret"
    [] OTHER -> "ident"

\* C8: every maximal alphanumeric run that starts with a letter and that the
\* lexer has passed is exactly one token, which starts the run: the keyword
\* when the run is let, print, fn or return, else one identifier whose text
\* is the whole run.
C8_RunIsOneToken ==
  \A a \in RunStarts(m_src) :
    a < index =>
      LET b == RunEnd(m_src, a)
          text == RunText(m_src, a, b)
      IN /\ index >= b
         /\ \E k \in 1..Len(tokens) :
              /\ starts[k] = a
              /\ \A j \in 1..Len(tokens) : (starts[j] >= a /\ starts[j] < b) => j = k
              /\ tokens[k].type = KeywordTypeOf(text)
              /\ tokens[k].value = IF KeywordTypeOf(text) = "ident" THEN <<text>> ELSE <<>>

C8_Witness ==
  /\ lex_pc = "returned"
  /\ \E k \in 1..Len(tokens) :
       /\ tokens[k].type = "ident"
       /\ tokens[k].value = << <<"l","e","t","x">> >>
  /\ \E k \in 1..Len(tokens) : tokens[k].type = "ret"

\* the characters the claim lists: whitespace, alphanumerics, ( ) { } ; = + - * /
Lexable(c) ==
  isspace(c) \/ isalnum(c) \/ c \in {"(", ")", "{", "}", ";", "=", "+", "-", "*", "/"}

BadOffsets(source) == { j \in 0..(Len(source) - 1) : ~Lexable(At(source, j)) }

FirstBad(source) ==
  CHOOSE j \in BadOffsets(source) : \A i \in BadOffsets(source) : j <= i

\* C9: tokenize fails exactly when the source holds a character that is not
\* whitespace, alphanumeric or one of ( ) { } ; = + - * /, and then with the
\* unexpected-character error for the first such character.
C9_FailsIffBadCharacter ==
  /\ lex_pc = "returned" => BadOffsets(m_src) = {}
  /\ lex_pc = "failed" =>
       /\ BadOffsets(m_src) # {}
       /\ index = FirstBad(m_src)
       /\ Len(lex_error) = 1
       /\ lex_error[1].message =
            <<"Unexpected character '", At(m_src, FirstBad(m_src)), "'">>
  /\ lex_pc = "loop" => BadOffsets(m_src) \cap 0..(index - 1) = {}

C9_Witness ==
  /\ lex_pc = "failed"
  /\ Len(tokens) >= 2
  /\ Cardinality(BadOffsets(m_src)) >= 2

(***************************************************************************)
(* Parser: properties                                                      *)
(***************************************************************************)
IsPrimaryType(type) == type \in {"int_lit", "ident"}
IsOperatorType(type) == type \in {"plus", "minus", "star", "fslash"}

\* toks[a..b] (1-based, inclusive) has the form p1 op1 p2 ... pn, n >= 1
ChainAt(toks, a, b) ==
  /\ 1 <= a /\ a <= b /\ b <= Len(toks)
  /\ (b - a) % 2 = 0
  /\ \A k \in a..b : IF (k - a) % 2 = 0 THEN IsPrimaryType(toks[k].type)
                                         ELSE IsOperatorType(toks[k].type)

\* the primary a literal or identifier token stands for
PrimaryOf(tok) ==
  IF tok.type = "int_lit" THEN ASTPrimaryExpr(<<tok>>, <<>>) ELSE ASTPrimaryExpr(<<>>, <<tok>>)

\* Binary(p_k, op_k, Binary(p_k+1, ... p_n)) for the chain toks[k..Len(toks)]
RECURSIVE RightNested(_, _)
RightNested(toks, k) ==
  IF k >= Len(toks) THEN ExprPrimary(PrimaryOf(toks[k]))
  ELSE ExprBinary(PrimaryOf(toks[k]), toks[k + 1], RightNested(toks, k + 2))

\* the call that runs or has returned is the first one on the parser: it
\* started at token 0
OnFresh == par_calls <= 1

\* the first call on the parser was one of parse_expr / parse_statement /
\* parse, and has returned
Returned_parse_expr == OnFresh /\ par_result # <<>> /\ par_result[1].method = "parse_expr"
Returned_parse_statement ==
  OnFresh /\ par_result # <<>> /\ par_result[1].method = "parse_statement"
Returned_parse == OnFresh /\ par_result # <<>> /\ par_result[1].method = "parse"

\* C1: on a token sequence p1 op1 p2 ... pn, parse_expr consumes all of it
\* and returns the right-nested tree Binary(p1, op1, Binary(p2, op2, ... pn)),
\* whatever the operators are.
C1_RightNested ==
  (Returned_parse_expr /\ ChainAt(m_tokens, 1, Len(m_tokens))) =>
    /\ par_result[1].ok
    /\ par_result[1].value = RightNested(m_tokens, 1)
    /\ m_index = Len(m_tokens)

\* 1+2*3 yields Binary(1, '+', Binary(2, '*', 3))
C1_Witness ==
  /\ Returned_parse_expr
  /\ m_tokens = Place(<<IntLit(<<"1">>), Lx("plus"), IntLit(<<"2">>), Lx("star"), IntLit(<<"3">>)>>)
  /\ par_result[1].ok
  /\ par_result[1].value =
       ExprBinary(ASTPrimaryExpr(<<m_tokens[1]>>, <<>>), m_tokens[2],
         ExprBinary(ASTPrimaryExpr(<<m_tokens[3]>>, <<>>), m_tokens[4],
           ExprPrimary(ASTPrimaryExpr(<<m_tokens[5]>>, <<>>))))

\* the names of the functions of a well-formed program: the token after each fn
FunctionNamesOf(toks) ==
  { toks[k + 1].value : k \in { j \in 1..(Len(toks) - 1) : toks[j].type = "fn" } }

\* C2: on a well-formed sequence of zero or more function definitions none
\* of which is named exactly main, parse ends with the missing-main error
\* and returns no Program.
C2_MissingMain ==
  (m_tokens \in ProgramInputs /\ << <<"m","a","i","n">> >> \notin FunctionNamesOf(m_tokens)) =>
    /\ par_pc # "parsed"
    /\ Returned_parse =>
         /\ ~par_result[1].ok
         /\ par_result[1].error = PlainError(<<"Program must have a 'main' function">>)
         /\ m_index = Len(m_tokens)
    /\ (par_pc = "parsing" /\ m_index = Len(m_tokens)) => ENABLED ParseEnd

C2_Witness ==
  /\ Returned_parse
  /\ ~par_result[1].ok
  /\ par_result[1].error = PlainError(<<"Program must have a 'main' function">>)
  /\ Len(program) = 2
  /\ program[2].name.value = << <<"m","a","i","n","x">> >>

\* toks[1..j] is a complete statement of the given kind without its
\* semicolon
StatementBody(toks, kind, j) ==
  /\ 1 <= j /\ j <= Len(toks)
  /\ CASE kind = "let" ->
            /\ j >= 4
            /\ toks[1].type = "let" /\ toks[2].type = "ident" /\ toks[3].type = "eq"
            /\ ChainAt(toks, 4, j)
       [] kind = "print" ->
            /\ j >= 4
            /\ toks[1].type = "print" /\ toks[2].type = "open_paren"
            /\ ChainAt(toks, 3, j - 1)
            /\ toks[j].type = "close_paren"
       [] kind = "return" ->
            /\ j >= 2
            /\ toks[1].type = "ret"
            /\ ChainAt(toks, 2, j)
       [] kind = "expression" -> ChainAt(toks, 1, j)

StatementKinds == {"let", "print", "return", "expression"}

\* parse_statement failed with the semicolon error of a kind, the cursor
\* behind the statement body toks[1..j]
SemicolonErrorAt(kind, j) ==
  /\ ~par_result[1].ok
  /\ Len(par_result[1].error.message) >= 3
  /\ SubSeq(par_result[1].error.message, 1, 3) = <<"Expected ", "semicolon after ", kind>>
  /\ m_index = j

\* the token after the statement body toks[1..j] is a binary operator, which
\* parse_expr takes as the continuation of the statement's expression
OperatorFollows(toks, kind, j) ==
  kind # "print" /\ j < Len(toks) /\ IsOperatorType(toks[j + 1].type)

\* C10 as stated: when the token after a complete statement is not ';' (or
\* there is none), parse_statement fails with "Expected semicolon after
\* <kind>" for the statement's kind; when parse_statement succeeds the last
\* token it consumed is the ';'.
C10_AnyFollower ==
  Returned_parse_statement =>
    /\ \A kind \in StatementKinds, j \in 1..Len(m_tokens) :
         StatementBody(m_tokens, kind, j) =>
           IF j < Len(m_tokens) /\ m_tokens[j + 1].type = "semi"
             THEN par_result[1].ok /\ m_index = j + 1
             ELSE SemicolonErrorAt(kind, j)
    /\ par_result[1].ok =>
         /\ m_index >= 1
         /\ m_tokens[m_index].type = "semi"
         /\ consumed[Len(consumed)] = m_index - 1

\* C10: when the token after a complete statement is neither ';' nor a
\* binary operator that continues its expression (or there is none),
\* parse_statement fails with "Expected semicolon after <kind>" for the
\* statement's kind.  After a let, return or expression statement a binary
\* operator continues the expression: parse_statement then fails with
\* "Expected expression", naming no kind, unless a literal or an identifier
\* follows the operator.  When parse_statement succeeds the last token it
\* consumed is the ';'.
C10_SemicolonRequired ==
  Returned_parse_statement =>
    /\ \A kind \in StatementKinds, j \in 1..Len(m_tokens) :
         StatementBody(m_tokens, kind, j) =>
           IF j < Len(m_tokens) /\ m_tokens[j + 1].type = "semi"
             THEN par_result[1].ok /\ m_index = j + 1
             ELSE IF OperatorFollows(m_tokens, kind, j)
               THEN (j + 1 = Len(m_tokens) \/ m_tokens[j + 2].type \notin {"int_lit", "ident"}) =>
                      /\ ~par_result[1].ok
                      /\ par_result[1].error.message = <<"Expected expression">>
                      /\ par_result[1].error.located = (j + 1 < Len(m_tokens))
                      /\ m_index = j + 1
               ELSE SemicolonErrorAt(kind, j)
    /\ par_result[1].ok =>
         /\ m_index >= 1
         /\ m_tokens[m_index].type = "semi"
         /\ consumed[Len(consumed)] = m_index - 1

\* "let x = 1 + }" failed with "Expected expression" at the brace
C10_Witness ==
  /\ Returned_parse_statement
  /\ StatementBody(m_tokens, "let", 4)
  /\ Len(m_tokens) = 6
  /\ m_tokens[5].type = "plus" /\ m_tokens[6].type = "close_curly"
  /\ ~par_result[1].ok
  /\ par_result[1].error.message = <<"Expected expression">>
  /\ m_index = 5

\* C11: while parse is at top level, a next token other than fn ends parse
\* with the top-level-statement error located at that token, whatever was
\* parsed before it (a function named main included)
AtTopLevelStray ==
  /\ par_pc \in {"fresh", "parsing"}
  /\ m_index < Len(m_tokens)
  /\ m_tokens[m_index + 1].type # "fn"

C11_TopLevelStatement ==
  /\ [](AtTopLevelStray => ENABLED ParseTopLevel)
  /\ [][ (AtTopLevelStray /\ par_pc' # "returned")
          => /\ par_pc' = "failed"
             /\ par_result' =
                  <<[method |-> "parse", ok |-> FALSE,
                     error |-> LocatedError(
                       <<"Expected function definition (top-level statements not allowed)">>,
                       m_tokens[m_index + 1].line, m_tokens[m_index + 1].column)]>>
             /\ program' = program /\ m_index' = m_index ]_vars

C11_Witness ==
  /\ OnFresh
  /\ par_pc = "failed"
  /\ has_main_function(program)
  /\ m_index < Len(m_tokens)
  /\ m_tokens[m_index + 1].type = "semi"
  /\ par_result[1].error =
       LocatedError(<<"Expected function definition (top-level statements not allowed)">>,
                    m_tokens[m_index + 1].line, m_tokens[m_index + 1].column)

\* the grammar, as the sets of positions at which a derivation that starts at
\* position i (1-based) can end:
\*   program := function*     function := fn IDENT ( ) { statement* }
\*   statement := let IDENT = expr ; | print ( expr ) ; | return expr ; | expr ;
\*   expr := primary (op expr)?          primary := INT_LIT | IDENT
TypeAt(toks, i) == IF 1 <= i /\ i <= Len(toks) THEN toks[i].type ELSE "none"

RECURSIVE ExprEnds(_, _)
ExprEnds(toks, i) ==
  IF IsPrimaryType(TypeAt(toks, i))
    THEN {i + 1} \cup (IF IsOperatorType(TypeAt(toks, i + 1))
                          THEN ExprEnds(toks, i + 2) ELSE {})
    ELSE {}

\* the positions after "expr t" for an expr that starts at i
ExprThen(toks, i, t) == { e + 1 : e \in { j \in ExprEnds(toks, i) : TypeAt(toks, j) = t } }

StatementEnds(toks, i) ==
  (IF TypeAt(toks, i) = "let" /\ TypeAt(toks, i + 1) = "ident" /\ TypeAt(toks, i + 2) = "eq"
     THEN ExprThen(toks, i + 3, "semi") ELSE {})
  \cup
  (IF TypeAt(toks, i) = "print" /\ TypeAt(toks, i + 1) = "open_paren"
     THEN { s + 1 : s \in { j \in ExprThen(toks, i + 2, "close_paren") :
                              TypeAt(toks, j) = "semi" } }
     ELSE {})
  \cup
  (IF TypeAt(toks, i) = "ret" THEN ExprThen(toks, i + 1, "semi") ELSE {})
  \cup
  ExprThen(toks, i, "semi")

RECURSIVE BodyEnds(_, _)
BodyEnds(toks, i) ==
  {i} \cup UNION { BodyEnds(toks, j) : j \in StatementEnds(toks, i) }

FunctionEnds(toks, i) ==
  IF /\ TypeAt(toks, i) = "fn" /\ TypeAt(toks, i + 1) = "ident"
     /\ TypeAt(toks, i + 2) = "open_paren" /\ TypeAt(toks, i + 3) = "close_paren"
     /\ TypeAt(toks, i + 4) = "open_curly"
    THEN { b + 1 : b \in { j \in BodyEnds(toks, i + 5) : TypeAt(toks, j) = "close_curly" } }
    ELSE {}

RECURSIVE ProgramEnds(_, _)
ProgramEnds(toks, i) ==
  {i} \cup UNION { ProgramEnds(toks, j) : j \in FunctionEnds(toks, i) }

Derivable(toks) == (Len(toks) + 1) \in ProgramEnds(toks, 1)

\* C12: parse returns a Program exactly for the token sequences the grammar
\* derives in which a function is named main
C12_GrammarIff ==
  (OnFresh /\ par_pc \in {"parsed", "failed"}) =>
    ( par_pc = "parsed"
        <=> /\ Derivable(m_tokens)
            /\ << <<"m","a","i","n">> >> \in FunctionNamesOf(m_tokens) )

\* a token between the parentheses of a header that is otherwise that of main
C12_Witness ==
  /\ OnFresh
  /\ par_pc = "failed"
  /\ Len(m_tokens) >= 7
  /\ m_tokens[1].type = "fn"
  /\ m_tokens[2].value = << <<"m","a","i","n">> >>
  /\ m_tokens[3].type = "open_paren"
  /\ m_tokens[4].type = "ident"
  /\ m_tokens[5].type = "close_paren"
  /\ Derivable(SubSeq(m_tokens, 1, 3) \o SubSeq(m_tokens, 5, Len(m_tokens)))

(***************************************************************************)
(* CodeGen: properties                                                     *)
(***************************************************************************)
\* the name a let statement binds, and the names bound by the lets among the
\* first k statements of a body
LetNameOf(stmt) == stmt.node.ident.value[1]

EarlierLetNames(body, k) ==
  { LetNameOf(body[j]) : j \in { i \in 1..k : body[i].var = "ASTLetStmt" } }

\* the statement generateFunctionBody is at, when it is a let of a name that
\* an earlier let of the same body bound
AtDuplicateLet ==
  /\ gen_si < Len(FuncBody)
  /\ FuncBody[gen_si + 1].var = "ASTLetStmt"
  /\ LetNameOf(FuncBody[gen_si + 1]) \in EarlierLetNames(FuncBody, gen_si)

\* C3: lowering a let whose name an earlier let of the same function bound
\* fails with the duplicate-binding error naming the variable, and the step
\* leaves the module (no slot, no instruction) and the symbol table as they were
C3_DuplicateLet ==
  [][ (gen_pc = "body" /\ AtDuplicateLet)
        => /\ gen_pc' = "failed"
           /\ gen_error' = <<"In function '">> \o FuncName \o <<"': ", "Variable '">>
                              \o LetNameOf(FuncBody[gen_si + 1])
                              \o <<"' is already declared in this scope">>
           /\ module' = module
           /\ variables' = variables ]_vars

C3_Witness ==
  /\ gen_pc = "failed"
  /\ AtDuplicateLet
  /\ gen_error = <<"In function '", "m", "a", "i", "n", "': ", "Variable '", "x",
                   "' is already declared in this scope">>

\* the identifier references of an expression, in the order of lowering
PrimaryRefs(primary) ==
  IF primary.int_lit = <<>> /\ primary.ident # <<>>
    THEN <<primary.ident[1].value[1]>> ELSE <<>>

RECURSIVE ExprRefs(_)
ExprRefs(expr) ==
  IF expr.var = "ASTBinaryExpr"
    THEN PrimaryRefs(expr.lhs) \o ExprRefs(expr.rhs)
    ELSE PrimaryRefs(expr.primary)

\* the references of the first k statements of a body
RECURSIVE BodyRefs(_, _)
BodyRefs(body, k) ==
  IF k = 0 THEN <<>> ELSE BodyRefs(body, k - 1) \o ExprRefs(body[k].node.expr)

\* a name has a slot in a function when the symbol table maps it to a slot
\* the entry block allocated
HasSlot(block, name) ==
  /\ name \in DOMAIN variables
  /\ variables[name].kind = "inst"
  /\ variables[name].at \in 1..Len(block)
  /\ block[variables[name].at].op = "alloca"

IsLoad(instr) == instr.op = "load"

\* the name a symbol table binds to the slot a load reads (nothing when it
\* binds none)
SlotNameOf(slots, load) ==
  LET bound == { n \in DOMAIN slots : slots[n] = load.operands[1] }
  IN IF bound = {} THEN <<>> ELSE CHOOSE n \in bound : TRUE

\* a value named base where base was taken: base and a number behind it
IsUniqued(name, base) ==
  /\ Len(name) > Len(base)
  /\ SubSeq(name, 1, Len(base)) = base
  /\ \A k \in (Len(base) + 1)..Len(name) : isdigit(name[k])

\* the name of an instruction created under the name of an identifier: the
\* identifier cut to the size limit, as it is or with a number behind it
NamedAfter(name, ident) ==
  LET base == SubSeq(ident, 1, IF Len(ident) > NonGlobalValueMaxNameSize
                                 THEN NonGlobalValueMaxNameSize ELSE Len(ident))
  IN name = base \/ IsUniqued(name, base)

\* the names bound to the slots the loads of a part of a block read, in order
LoadedNamesIn(slots, part) ==
  LET loads == SelectSeq(part, IsLoad)
  IN [k \in 1..Len(loads) |-> SlotNameOf(slots, loads[k])]

LoadedNames(block) == LoadedNamesIn(variables, block)

\* C4: while a function is lowered, every identifier reference lowered so far
\* emitted one load, in order, each from the slot allocated for its name; and
\* lowering stops with the undefined-variable error naming the identifier at
\* the first reference (in any statement kind, at any depth) without a slot
C4_IdentifierLowering ==
  gen_pc \in {"body", "failed"} =>
    LET f == gen_fi + 1
        block == module.functions[f].entry
        lowered == BodyRefs(FuncBody, gen_si)
        current == IF gen_pc = "failed" /\ ~AtDuplicateLet
                     THEN ExprRefs(FuncBody[gen_si + 1].node.expr) ELSE <<>>
        unbound == { k \in 1..Len(current) : ~HasSlot(block, current[k]) }
        first == CHOOSE k \in unbound : \A j \in unbound : k <= j
    IN /\ \A p \in 1..Len(block) :
            IsLoad(block[p]) =>
              \E q \in 1..(p - 1) :
                /\ block[q].op = "alloca"
                /\ NamedAfter(block[p].name, SlotNameOf(variables, block[p]))
                /\ block[p].operands = <<Inst(f, q)>>
       /\ (gen_pc = "body" \/ AtDuplicateLet) => LoadedNames(block) = lowered
       /\ (gen_pc = "failed" /\ ~AtDuplicateLet) =>
            /\ unbound # {}
            /\ LoadedNames(block) = lowered \o SubSeq(current, 1, first - 1)
            /\ gen_error = <<"In function '">> \o FuncName
                              \o <<"': ", "Undefined variable: ">> \o current[first]

C4_Witness ==
  /\ gen_pc = "failed"
  /\ gen_error = <<"In function '", "f", "': ", "Undefined variable: ", "z">>
  /\ FuncBody[gen_si + 1].var = "ASTExprStmt"
  /\ LoadedNames(module.functions[gen_fi + 1].entry) = << <<"x">>, <<"x">> >>

IsRet(instr) == instr.op = "ret"

ReturnStatements(body) == { k \in 1..Len(body) : body[k].var = "ASTReturnStmt" }

\* function f of the module was lowered to its end by generate_function
\* (inside generate() or called directly), and no direct call of
\* generate_statement has added to it since
LoweredAlone(f) == gen_made[f].status = "lowered" /\ gen_made[f].direct = 0

\* lets lowered so far, and that of a let that failed in its initializer
ScopeNames ==
  EarlierLetNames(FuncBody, gen_si)
    \cup (IF gen_pc = "failed" /\ FuncBody[gen_si + 1].var = "ASTLetStmt"
            THEN {LetNameOf(FuncBody[gen_si + 1])} ELSE {})

\* the names the lets of the functions lowered before the current one bound
OtherFunctionNames ==
  UNION { EarlierLetNames(gen_program.functions[f].body,
                          Len(gen_program.functions[f].body)) : f \in 1..gen_fi }

DuplicateError(funcName, name) ==
  <<"In function '">> \o funcName \o <<"': ", "Variable '">> \o name
    \o <<"' is already declared in this scope">>

\* C13: the symbol table holds the names of the current function's lets only
\* (none when its first statement is reached); a statement that was lowered
\* refers only to names bound in its own function; and a duplicate-binding
\* error is only ever about a name an earlier let of the same function bound
C13_SymbolTableReset ==
  gen_pc \in {"body", "failed"} =>
    /\ DOMAIN variables = ScopeNames
    /\ \A j \in 1..gen_si :
         \A k \in 1..Len(ExprRefs(FuncBody[j].node.expr)) :
           ExprRefs(FuncBody[j].node.expr)[k] \in EarlierLetNames(FuncBody, j)
    /\ (/\ gen_pc = "failed"
         /\ FuncBody[gen_si + 1].var = "ASTLetStmt"
         /\ gen_error = DuplicateError(FuncName, LetNameOf(FuncBody[gen_si + 1])))
          => LetNameOf(FuncBody[gen_si + 1]) \in EarlierLetNames(FuncBody, gen_si)

\* f refers to x, which only main bound
C13_Witness ==
  /\ gen_pc = "failed"
  /\ gen_fi = 1
  /\ <<"x">> \in OtherFunctionNames
  /\ <<"x">> \notin DOMAIN variables
  /\ gen_error = <<"In function '", "f", "': ", "Undefined variable: ", "x">>

(***************************************************************************)
StageOrder == <<"arguments", "read", "tokenize", "parse", "lower", "write">>

\* what the stages make of the input file, stage by stage
TokensOf(source) == Tokenizer_tokenize(Tokenizer(source))
ProgramOf(source) == Parser_parse(TokensOf(source).value)
ModuleOf(source) == generate(ProgramOf(source).value)

\* C15: main runs its stages in the order tokenize, parse, lower, write (after
\* the arguments and the input file); a stage is entered only when every stage
\* before it succeeded; a failed stage is the last one and ends main with a
\* non-zero status; out.ll exists only after tokenize, parse and lower
\* succeeded and the write stage was entered, and it holds the whole module
\* exactly when main ends with status 0
C15_StageOrder ==
  main_pc # "absent" =>
    /\ Len(main_trace) <= Len(StageOrder)
    /\ \A k \in 1..Len(main_trace) :
         /\ main_trace[k].stage = StageOrder[k]
         /\ k < Len(main_trace) => main_trace[k].ok
    /\ (main_trace # <<>> /\ ~main_trace[Len(main_trace)].ok)
         => /\ main_pc = "exited"
            /\ main_exit # <<>> /\ main_exit[1] # 0
            /\ Len(main_trace) < Len(StageOrder) => main_exit = <<1>> /\ out_ll = <<>>
    /\ main_pc = "exited" =>
         /\ main_exit # <<>>
         /\ main_exit = <<0>> <=> (Len(main_trace) = Len(StageOrder)
                                     /\ main_trace[Len(main_trace)].ok)
    /\ main_pc # "exited" => main_exit = <<>> /\ out_ll = <<>>
    /\ out_ll # <<>> =>
         /\ Len(main_trace) = Len(StageOrder)
         /\ TokensOf(main_file[1]).ok
         /\ ProgramOf(main_file[1]).ok
         /\ ModuleOf(main_file[1]).ok
         /\ IF main_exit = <<0>>
              THEN out_ll = <<ModuleOf(main_file[1]).cg.module>>
              ELSE out_ll = <<Incomplete(ModuleOf(main_file[1]).cg.module)>>

\* the parse stage failed on a source the Tokenizer accepts: nothing was lowered
C15_Witness ==
  /\ main_pc = "exited"
  /\ main_exit = <<1>>
  /\ main_trace = <<Stage("arguments", TRUE), Stage("read", TRUE), Stage("tokenize", TRUE),
                    Stage("parse", FALSE)>>
  /\ out_ll = <<>>

(***************************************************************************)
(* ErrorReporter: properties                                                *)
(***************************************************************************)
\* the pieces of text between its newlines (n newlines give n + 1 pieces)
RECURSIVE SplitAtNewlines(_, _)
SplitAtNewlines(text, cur) ==
  IF text = <<>> THEN <<cur>>
  ELSE IF Head(text) = "\n" THEN <<cur>> \o SplitAtNewlines(Tail(text), <<>>)
  ELSE SplitAtNewlines(Tail(text), Append(cur, Head(text)))

\* the source lines: the pieces of the source, without the empty piece after
\* a final newline (or of an empty source)
SourceLines(source) ==
  LET pieces == SplitAtNewlines(source, <<>>)
  IN IF pieces[Len(pieces)] = <<>> THEN SubSeq(pieces, 1, Len(pieces) - 1) ELSE pieces

\* the decimal numeral of n: the digits without a leading zero whose value is n
Numerals == { <<a>> : a \in Digits } \cup { <<a, b>> : a \in Digits \ {"0"}, b \in Digits }
NumeralOf(n) == CHOOSE ds \in Numerals : DecimalValue(ds) = n

\* "  <line> | "
Gutter(n) == <<" ", " ">> \o NumeralOf(n) \o <<" ", "|", " ">>

OutputLines == SplitAtNewlines(rep_result, <<>>)
CalledLocated == rep_pc = "returned" /\ rep_call[1].located
HeaderText ==
  <<"BOLD", "RED", "E", "r", "r", "o", "r", ":", "RESET", " ">> \o rep_call[1].message
    \o (IF m_filename = <<>> THEN <<>> ELSE <<" ", "i", "n", " ">> \o m_filename)
InSource == rep_call[1].line >= 1 /\ rep_call[1].line <= Len(SourceLines(m_source))

\* C16: format_error(message, line, column) always emits the header; for a
\* line of the source it then emits the previous line iff line > 1, the error
\* line, and a caret after len("  <line> | ") + min(column, length of the
\* error line + 1) - 1 spaces; for line 0 or a line beyond the source it emits
\* neither a context line nor a caret.
C16_ErrorLayout ==
  CalledLocated =>
    LET ln == rep_call[1].line
        col == rep_call[1].column
        src == SourceLines(m_source)
        out == OutputLines
    IN /\ out[1] = HeaderText
       /\ IF InSource
            THEN /\ Len(out) = (IF ln > 1 THEN 4 ELSE 3)
                 /\ ln > 1 => out[2] = Gutter(ln - 1) \o src[ln - 1]
                 /\ out[Len(out) - 1] = Gutter(ln) \o src[ln]
                 /\ \E n \in 0..(Len(out[Len(out)])) :
                      /\ out[Len(out)] = [k \in 1..n |-> " "] \o <<"RED", "^", "RESET">>
                      /\ n = Len(Gutter(ln)) + (IF col <= Len(src[ln]) + 1 THEN col ELSE Len(src[ln]) + 1) - 1
                 /\ Len(out) - 2 <= 2
            ELSE /\ out = <<HeaderText, <<>>>>
                 /\ \A k \in 1..Len(rep_result) : rep_result[k] # "^"

\* the error is on a line after the first one, of two digits, and the column
\* lies beyond the end of that line
C16_Witness ==
  /\ CalledLocated /\ InSource
  /\ rep_call[1].line >= 10
  /\ rep_call[1].column > Len(SourceLines(m_source)[rep_call[1].line]) + 1
  /\ Len(OutputLines) = 4

(***************************************************************************)
(* Parser: the first token that does not fit                                *)
(***************************************************************************)
\* the grammar as an automaton over token types: where a sequence that fits
\* so far stands, and the types that may come next
GrammarEdges ==
  { <<"top", "fn", "fn">>, <<"fn", "ident", "name">>, <<"name", "open_paren", "params">>,
    <<"params", "close_paren", "header">>, <<"header", "open_curly", "body">>,
    <<"body", "close_curly", "top">>,
    <<"body", "let", "let">>, <<"let", "ident", "let name">>, <<"let name", "eq", "let expr">>,
    <<"body", "print", "print">>, <<"print", "open_paren", "print expr">>,
    <<"print operand", "close_paren", "print end">>, <<"print end", "semi", "body">>,
    <<"body", "ret", "ret expr">>,
    <<"let operand", "semi", "body">>, <<"ret operand", "semi", "body">>,
    <<"stmt operand", "semi", "body">> }
  \cup { <<"body", t, "stmt operand">> : t \in {"int_lit", "ident"} }
  \cup { <<c \o " expr", t, c \o " operand">> :
           c \in {"let", "print", "ret", "stmt"}, t \in {"int_lit", "ident"} }
  \cup { <<c \o " operand", t, c \o " expr">> :
           c \in {"let", "print", "ret", "stmt"}, t \in {"plus", "minus", "star", "fslash"} }

\* where the first n tokens lead, "stuck" once a token did not fit
RECURSIVE StateAfter(_, _)
StateAfter(toks, n) ==
  IF n = 0 THEN "top"
  ELSE LET before == StateAfter(toks, n - 1)
           next == { e \in GrammarEdges : e[1] = before /\ e[2] = toks[n].type }
       IN IF next = {} THEN "stuck" ELSE (CHOOSE e \in next : TRUE)[3]

\* the (1-based) position of the leftmost token that does not fit, if any
StopsAt(toks) ==
  { k \in 1..Len(toks) : StateAfter(toks, k) = "stuck" /\ StateAfter(toks, k - 1) # "stuck" }

MissingMain == PlainError(<<"Program must have a 'main' function">>)

\* C17: parse reports exactly one error, the one for the leftmost token at
\* which the sequence stops matching the grammar, with the cursor left on that
\* token and no later token consumed; the missing-main error is reported
\* only when every token was consumed without a syntax error.
C17_FirstError ==
  (OnFresh /\ par_pc \in {"parsed", "failed"}) =>
    LET r == par_result[1]
        stops == StopsAt(m_tokens)
    IN /\ Len(par_result) = 1
       /\ Idle
       /\ \A k \in stops :
            /\ ~r.ok
            /\ r.error.located
            /\ r.error.line = m_tokens[k].line /\ r.error.column = m_tokens[k].column
            /\ m_index = k - 1
            /\ \A c \in 1..Len(consumed) : consumed[c] < k - 1
       /\ (stops = {} /\ StateAfter(m_tokens, Len(m_tokens)) # "top") =>
            /\ ~r.ok
            /\ ~r.error.located
            /\ r.error # MissingMain
       /\ (~r.ok /\ r.error = MissingMain) =>
            /\ stops = {}
            /\ StateAfter(m_tokens, Len(m_tokens)) = "top"
            /\ consumed = [c \in 1..Len(m_tokens) |-> c - 1]
       /\ ~r.ok => (r.error = MissingMain \/ stops # {}
                      \/ StateAfter(m_tokens, Len(m_tokens)) # "top")

\* a function that is not main was parsed, then a token does not fit: the
\* sequence has no main and a syntax error, with tokens left behind it
C17_Witness ==
  /\ OnFresh
  /\ par_pc = "failed"
  /\ program # <<>>
  /\ ~has_main_function(program)
  /\ StopsAt(m_tokens) # {}
  /\ m_index + 1 < Len(m_tokens)
  /\ par_result[1].error.located

(***************************************************************************)
(* CodeGen: a let that reads its own name                                   *)
(***************************************************************************)
\* the j-th statement of a body is a let whose initializer references the
\* let's own name, and no earlier let of the body bound that name
SelfReferringLet(body, j) ==
  /\ body[j].var = "ASTLetStmt"
  /\ \E k \in 1..Len(ExprRefs(body[j].node.expr)) :
       ExprRefs(body[j].node.expr)[k] = LetNameOf(body[j])
  /\ LetNameOf(body[j]) \notin EarlierLetNames(body, j - 1)

\* C18: a let whose initializer references the let's own name, no earlier
\* let having bound it, is never lowered: generateFunctionBody does not get
\* past it, and stops there with the undefined-variable error naming it
\* (when its other references are bound)
C18_SelfReferenceFails ==
  gen_pc \in {"body", "failed", "generate", "done"} =>
    \A f \in 1..Len(gen_program.functions) :
      \A j \in 1..Len(gen_program.functions[f].body) :
        SelfReferringLet(gen_program.functions[f].body, j) =>
          /\ ~(f < gen_fi + 1)
          /\ (f = gen_fi + 1) =>
               /\ gen_si < j
               /\ ( /\ gen_pc = "failed" /\ gen_si = j - 1
                    /\ \A k \in 1..Len(ExprRefs(FuncBody[j].node.expr)) :
                         ExprRefs(FuncBody[j].node.expr)[k]
                           \in EarlierLetNames(FuncBody, j - 1) \cup {LetNameOf(FuncBody[j])} ) =>
                    gen_error = <<"In function '">> \o FuncName
                                  \o <<"': ", "Undefined variable: ">>
                                  \o LetNameOf(FuncBody[j])

(***************************************************************************)
(* CodeGen: the return of a function                                        *)
(***************************************************************************)
\* C19: the entry block of every lowered function holds exactly one return
\* instruction, and it is the last instruction of the block
C19_SingleFinalReturn ==
  gen_pc # "absent" =>
    \A f \in 1..gen_fi :
      LET block == module.functions[f].entry
      IN /\ Len(SelectSeq(block, IsRet)) = 1
         /\ Len(block) > 0
         /\ IsRet(block[Len(block)])

(***************************************************************************)
(* CodeGen: the slots of a function                                         *)
(***************************************************************************)
IsAlloca(instr) == instr.op = "alloca"

LetStatements(body) == { k \in 1..Len(body) : body[k].var = "ASTLetStmt" }

\* the function lowered last is complete, nothing was added to it, and its
\* symbol table still stands
FunctionLowered ==
  /\ gen_pc # "absent" /\ gen_owner # "nobody"
  /\ gen_ip = "module"
  /\ LoweredAlone(Len(gen_made))

\* a step lowered the let stmt into function f: it appended the slot
\* allocation, the instructions of the initializer and the store, and bound
\* the name to the slot
LetLowered(f, stmt) ==
  LET old == Len(module.functions[f].entry)
      block == module.functions[f].entry'
      init == SubSeq(block, old + 2, Len(block) - 1)
      value == block[Len(block)].operands[1]
  IN /\ Len(block) >= old + 2
     /\ SubSeq(block, 1, old) = module.functions[f].entry
     /\ block[old + 1].op = "alloca"
     /\ block[old + 1].operands = <<>>
     /\ NamedAfter(block[old + 1].name, LetNameOf(stmt))
     /\ \A k \in 1..Len(init) : init[k].op \in {"load", "add", "sub", "mul", "sdiv"}
     /\ LoadedNamesIn(variables', init) = ExprRefs(stmt.node.expr)
     /\ block[Len(block)].op = "store"
     /\ block[Len(block)].operands = <<value, Inst(f, old + 1)>>
     /\ IF init = <<>> THEN value.kind = "const" ELSE value = Inst(f, Len(block) - 1)
     /\ variables' = Bind(variables, LetNameOf(stmt), Inst(f, old + 1))

\* the step is an iteration of generateFunctionBody that lowered a let
LetStepInBody ==
  /\ gen_pc = "body" /\ gen_pc' = "body" /\ gen_si' = gen_si + 1
  /\ FuncBody[gen_si + 1].var = "ASTLetStmt"

\* the step is a direct call of generate_statement that lowered a let into a
\* module that exists
LetStepDirect ==
  /\ Len(gen_log') = Len(gen_log) + 1
  /\ gen_log'[Len(gen_log')].call = "generate_statement"
  /\ gen_log'[Len(gen_log')].arg[1].var = "ASTLetStmt"
  /\ gen_pc' = "done"
  /\ gen_owner # "nobody"

\* a step of generateFunctionBody that lowered a statement
StatementLowered == gen_pc = "body" /\ gen_pc' = "body" /\ gen_si' = gen_si + 1

ArithmeticOf(type) ==
  CASE type = "plus" -> "add" [] type = "minus" -> "sub"
    [] type = "star" -> "mul" [] type = "fslash" -> "sdiv"

\* the code an expression is to emit from position at + 1 of the entry block
\* of function f on, and its value: a literal emits nothing, an identifier
\* one load of its slot, a binary expression the code of its left primary,
\* the code of its right operand and one arithmetic instruction on the two
\* values; with fold, an operation on two constants emits nothing and its
\* value is the constant result
RECURSIVE ExprCode(_, _, _, _, _)
ExprCode(expr, f, at, slots, fold) ==
  IF expr.var = "ASTBinaryExpr"
    THEN LET l == ExprCode([var |-> "ASTPrimaryExpr", primary |-> expr.lhs], f, at, slots, fold)
             r == ExprCode(expr.rhs, f, at + Len(l.code), slots, fold)
             here == at + Len(l.code) + Len(r.code)
         IN IF fold /\ IsConstant(l.value) /\ IsConstant(r.value)
              THEN [code |-> l.code \o r.code,
                    value |-> FoldBinOp(expr.op.type, l.value, r.value)]
              ELSE [code |-> l.code \o r.code
                               \o <<[op |-> ArithmeticOf(expr.op.type),
                                     operands |-> <<l.value, r.value>>]>>,
                    value |-> Inst(f, here + 1)]
    ELSE IF expr.primary.int_lit # <<>>
      THEN [code |-> <<>>, value |-> Const(DecimalValue(expr.primary.int_lit[1].value[1]))]
      ELSE [code |-> <<[op |-> "load", operands |-> <<slots[expr.primary.ident[1].value[1]]>>]>>,
            value |-> Inst(f, at + 1)]

\* the value of p1 op1 (p2 op2 (... pn)) over 32-bit signed integers, the
\* identifiers standing for the values of env
RECURSIVE RightFold(_, _)
RightFold(expr, env) ==
  LET prim(p) == IF p.int_lit # <<>> THEN Const(DecimalValue(p.int_lit[1].value[1]))
                 ELSE env[p.ident[1].value[1]]
  IN IF expr.var = "ASTBinaryExpr"
       THEN FoldBinOp(expr.op.type, prim(expr.lhs), RightFold(expr.rhs, env))
       ELSE prim(expr.primary)

TypeOfArithmetic(op) ==
  CASE op = "add" -> "plus" [] op = "sub" -> "minus" [] op = "mul" -> "star" [] op = "sdiv" -> "fslash"

\* what a value of a block evaluates to when a load of the slot of a name
\* yields env's
RECURSIVE ValueIn(_, _, _, _)
ValueIn(block, slots, v, env) ==
  IF v.kind # "inst" THEN v
  ELSE IF block[v.at].op = "load" THEN env[SlotNameOf(slots, block[v.at])]
  ELSE FoldBinOp(TypeOfArithmetic(block[v.at].op),
                 ValueIn(block, slots, block[v.at].operands[1], env),
                 ValueIn(block, slots, block[v.at].operands[2], env))

\* the values the names of a symbol table may hold
Envs(slots) == [DOMAIN slots -> { Const(0), Const(2), Const(I32Max) }]

\* the instructions a step emitted for the expression of its statement
\* (between a let's alloca and store, before a ret or a call), and its value
EmittedFirst(stmt, old) == IF stmt.var = "ASTLetStmt" THEN old + 2 ELSE old + 1
EmittedLast(stmt, block) == IF stmt.var = "ASTExprStmt" THEN Len(block) ELSE Len(block) - 1
EmittedValue(stmt, block, f) ==
  CASE stmt.var = "ASTPrintStmt" -> block[Len(block)].operands[3]
    [] stmt.var = "ASTExprStmt" -> Inst(f, Len(block))
    [] OTHER -> block[Len(block)].operands[1]

Shape(instr) == [op |-> instr.op, operands |-> instr.operands]

\* the step emitted, for the expression of its statement, the code ExprCode
\* describes, and handed its value on
EmitsExprCode(fold) ==
  LET f == gen_fi + 1
      stmt == FuncBody[gen_si + 1]
      old == Len(module.functions[f].entry)
      block == module.functions[f].entry'
      first == EmittedFirst(stmt, old)
      emitted == SubSeq(block, first, EmittedLast(stmt, block))
      claimed == ExprCode(stmt.node.expr, f, first - 1, variables', fold)
  IN /\ [k \in 1..Len(emitted) |-> Shape(emitted[k])] = claimed.code
     /\ (stmt.var # "ASTExprStmt" \/ emitted # <<>>) =>
          /\ EmittedValue(stmt, block, f) = claimed.value
          /\ \A env \in Envs(variables') :
               ValueIn(block, variables', EmittedValue(stmt, block, f), env)
                 = RightFold(stmt.node.expr, env)

\* C21 as stated: every binary expression emits the code of its left
\* primary, the code of its right operand, then one arithmetic instruction
\* on the two values, and computes the right fold
C21_AlwaysAnInstruction == [][StatementLowered => EmitsExprCode(FALSE)]_vars

\* C21: a binary expression emits the code of its left primary, then the
\* code of its right operand, then one arithmetic instruction (add, sub, mul,
\* sdiv for + - * /) on the two values, unless both values are constants:
\* then nothing is emitted and the value is the constant result.  The value
\* of a chain is the right fold over 32-bit signed integers either way.
C21_BinaryLowering == [][StatementLowered => EmitsExprCode(TRUE)]_vars

\* return 10 - x - 3 was lowered to a load and two subtractions, the outer
\* one of 10 and the inner one
C21_Witness ==
  /\ gen_pc = "body" /\ gen_si > 0
  /\ FuncBody[gen_si].var = "ASTReturnStmt"
  /\ LET block == module.functions[gen_fi + 1].entry
         n == Len(block)
     IN /\ n >= 4
        /\ block[n].op = "ret" /\ block[n].operands = <<Inst(gen_fi + 1, n - 1)>>
        /\ block[n - 1].op = "sub"
        /\ block[n - 1].operands = <<Const(10), Inst(gen_fi + 1, n - 2)>>
        /\ block[n - 2].op = "sub"
        /\ block[n - 2].operands = <<Inst(gen_fi + 1, n - 3), Const(3)>>
        /\ block[n - 3].op = "load"

(***************************************************************************)
(* CodeGen: division                                                        *)
(***************************************************************************)
\* the divisions of an expression: its nodes lhs / rhs, outermost first
RECURSIVE Divisions(_)
Divisions(expr) ==
  IF expr.var = "ASTBinaryExpr"
    THEN (IF expr.op.type = "fslash" THEN <<expr>> ELSE <<>>) \o Divisions(expr.rhs)
    ELSE <<>>

HasReference(expr) == ExprRefs(expr) # <<>>

IsSDiv(instr) == instr.op = "sdiv"

\* generateFunctionBody is at a statement with a division whose identifiers
\* are all bound (a let binds its own name), and that is no duplicate let
AtDivision ==
  /\ gen_pc = "body" /\ gen_si < Len(FuncBody)
  /\ Divisions(FuncBody[gen_si + 1].node.expr) # <<>>
  /\ ~AtDuplicateLet
  /\ \A k \in 1..Len(ExprRefs(FuncBody[gen_si + 1].node.expr)) :
       ExprRefs(FuncBody[gen_si + 1].node.expr)[k]
         \in DOMAIN variables
              \cup (IF FuncBody[gen_si + 1].var = "ASTLetStmt"
                      THEN {LetNameOf(FuncBody[gen_si + 1])} ELSE {})

\* the step out of AtDivision lowers the statement, emits loads and arithmetic
\* only for its expression, and as many sdiv instructions as it has divisions
\* (all of them, or those that satisfy counted)
DivisionStep(counted(_)) ==
  LET f == gen_fi + 1
      stmt == FuncBody[gen_si + 1]
      old == Len(module.functions[f].entry)
      block == module.functions[f].entry'
      emitted == SubSeq(block, EmittedFirst(stmt, old), EmittedLast(stmt, block))
  IN /\ StatementLowered
     /\ \A k \in 1..Len(emitted) : emitted[k].op \in {"load", "add", "sub", "mul", "sdiv"}
     /\ Len(SelectSeq(emitted, IsSDiv)) = Len(SelectSeq(Divisions(stmt.node.expr), counted))

AnyDivision(expr) == TRUE

\* the quotient of a by b (b not 0) truncated toward zero: the one q whose
\* remainder a - q * b is smaller than b and is 0 or has the sign of a
Magnitude(n) == IF n < 0 THEN -n ELSE n

TruncatedQuotient(a, b) ==
  CHOOSE q \in (-Magnitude(a))..Magnitude(a) :
    LET r == a - q * b
    IN Magnitude(r) < Magnitude(b) /\ (r = 0 \/ ((r < 0) = (a < 0)))

\* what an expression on literals means, <<n>>, or <<>> when it divides by 0
\* (the literals of the inputs keep every result inside 32 bits)
RECURSIVE ConstantMeaning(_)
ConstantMeaning(expr) ==
  IF expr.var # "ASTBinaryExpr"
    THEN <<DecimalValue(expr.primary.int_lit[1].value[1])>>
    ELSE LET a == DecimalValue(expr.lhs.int_lit[1].value[1])
             rest == ConstantMeaning(expr.rhs)
         IN IF rest = <<>> THEN <<>>
            ELSE CASE expr.op.type = "plus" -> <<a + rest[1]>>
                   [] expr.op.type = "minus" -> <<a - rest[1]>>
                   [] expr.op.type = "star" -> <<a * rest[1]>>
                   [] expr.op.type = "fslash" ->
                        IF rest[1] = 0 THEN <<>> ELSE <<TruncatedQuotient(a, rest[1])>>

\* the value an operand of a division was lowered to, by the operand's form:
\* a literal its constant, an identifier a load, an expression on an
\* identifier its arithmetic instruction, an expression on literals what it
\* means (poison when it divides by 0)
OperandLowered(block, value, operand) ==
  IF ~HasReference(operand)
    THEN IF ConstantMeaning(operand) = <<>> THEN value = Poison
         ELSE value = Const(ConstantMeaning(operand)[1])
    ELSE /\ value.kind = "inst"
         /\ block[value.at].op
              = IF operand.var = "ASTBinaryExpr" THEN ArithmeticOf(operand.op.type) ELSE "load"

\* the step out of AtDivision, of a statement that is a division lhs / rhs:
\* on an identifier it ends the code of the expression with the sdiv of the
\* two operands, on literals only it hands on what the division means
OutermostDivision ==
  LET f == gen_fi + 1
      stmt == FuncBody[gen_si + 1]
      expr == stmt.node.expr
      block == module.functions[f].entry'
      last == EmittedLast(stmt, block)
  IN (expr.var = "ASTBinaryExpr" /\ expr.op.type = "fslash") =>
       IF HasReference(expr)
         THEN /\ block[last].op = "sdiv"
              /\ OperandLowered(block, block[last].operands[1],
                                [var |-> "ASTPrimaryExpr", primary |-> expr.lhs])
              /\ OperandLowered(block, block[last].operands[2], expr.rhs)
              /\ stmt.var # "ASTExprStmt" => EmittedValue(stmt, block, f) = Inst(f, last)
         ELSE stmt.var # "ASTExprStmt" =>
                OperandLowered(block, EmittedValue(stmt, block, f), expr)

\* C22 as stated: every division is lowered without an error and emits a
\* signed-division instruction, whatever its divisor
C22_AlwaysSDiv == [][AtDivision => DivisionStep(AnyDivision)]_vars

\* C22: a division is lowered without an error and without a guard whatever
\* its divisor (a literal, 0 included, an identifier or an expression); it
\* emits a signed-division instruction on the values of its two operands
\* unless both operands are constants (no identifier in the division): then
\* no instruction is emitted, the constant folder giving the quotient
\* truncated toward zero, or poison for the divisor 0
C22_DivisionLowering ==
  [][AtDivision => (DivisionStep(HasReference) /\ OutermostDivision)]_vars

\* let x = 5; print(8 / x - 1); print(7 / 2); was lowered: the first division
\* to a load of x, the subtraction and sdiv 8 by it, the second to the
\* constant 3 with no instruction
C22_Witness ==
  /\ gen_pc = "body" /\ gen_si = 3
  /\ LET f == gen_fi + 1
         block == module.functions[f].entry
     IN /\ Len(block) = 7
        /\ block[3].op = "load"
        /\ block[4].op = "sub" /\ block[4].operands = <<Inst(f, 3), Const(1)>>
        /\ block[5].op = "sdiv" /\ block[5].operands = <<Const(8), Inst(f, 4)>>
        /\ block[6].op = "call" /\ block[6].operands[3] = Inst(f, 5)
        /\ block[7].op = "call" /\ block[7].operands[3] = Const(3)

(***************************************************************************)
(* The outcomes of lowering a parsed Program                                *)
(***************************************************************************)
\* a primary holds exactly one of literal and identifier
PrimaryWellFormed(primary) == (primary.int_lit = <<>>) # (primary.ident = <<>>)

RECURSIVE ExprWellFormed(_)
ExprWellFormed(expr) ==
  CASE expr.var = "ASTPrimaryExpr" -> PrimaryWellFormed(expr.primary)
    [] expr.var = "ASTBinaryExpr" ->
         /\ PrimaryWellFormed(expr.lhs)
         /\ expr.op.type \in {"plus", "minus", "star", "fslash"}
         /\ ExprWellFormed(expr.rhs)
    [] OTHER -> FALSE

ProgramWellFormed(prog) ==
  \A f \in 1..Len(prog.functions) :
    \A k \in 1..Len(prog.functions[f].body) :
      /\ prog.functions[f].body[k].var
           \in {"ASTLetStmt", "ASTPrintStmt", "ASTExprStmt", "ASTReturnStmt"}
      /\ ExprWellFormed(prog.functions[f].body[k].node.expr)

\* a lowering error is the duplicate-binding or the undefined-variable one
Mentions(error, part) == \E k \in 1..Len(error) : error[k] = part
IsBindingError(error) ==
  Mentions(error, "Undefined variable: ")
    \/ (Mentions(error, "Variable '") /\ Mentions(error, "' is already declared in this scope"))

\* C23: the Program parse returned is well formed, and lowering it succeeds
\* or returns a duplicate-binding or an undefined-variable error
C23_LoweringOutcomes ==
  main_pc = "lower" =>
    /\ ProgramWellFormed(main_value)
    /\ LET result == generate(main_value)
       IN result.ok \/ (~result.threw /\ IsBindingError(result.error))

(***************************************************************************)
(* Parser: the cursor                                                       *)
(***************************************************************************)
\* C24: on every token sequence the cursor never exceeds the number of
\* tokens, every consume took a token that is there (its index is below the
\* number of tokens), and no call ends in the exception of a consume past
\* the end
C24_CursorInBounds ==
  par_pc # "absent" =>
    /\ m_index <= Len(m_tokens)
    /\ \A k \in 1..Len(consumed) : consumed[k] < Len(m_tokens)
    /\ (par_result # <<>> /\ ~par_result[1].ok) =>
         par_result[1].error # PlainError(<<"std::out_of_range">>)

\* the input ended inside a function: every token was consumed, the cursor
\* stands at the end and the error is the one for the end of the input
C24_Witness ==
  /\ OnFresh
  /\ par_pc = "failed"
  /\ Len(m_tokens) > 0
  /\ m_index = Len(m_tokens)
  /\ consumed = [k \in 1..Len(m_tokens) |-> k - 1]
  /\ ~par_result[1].error.located
  /\ par_result[1].error # MissingMain

(***************************************************************************)
(* Parser: one pass over the tokens                                         *)
(***************************************************************************)
\* a step of parse(), called first on the parser
InParse ==
  /\ par_calls' = 1
  /\ par_pc \in {"fresh", "parsing"}
  /\ par_pc' \in {"parsing", "parsed", "failed"}

\* the indexes 0 .. n - 1 in order
FirstIndexes(n) == [k \in 1..n |-> k - 1]

\* C25 as stated: during a call of parse the cursor only moves forward
C25_NeverBackwards == [][InParse => m_index' >= m_index]_vars

\* C25: during a call of parse the cursor moves forward only, by one token
\* per consume, each consume taking the token at the cursor, so every token
\* is consumed at most once; what parse reports depends on no token behind
\* the cursor; when parse succeeds every token was consumed exactly once
\* before the main-function check, and the cursor is set back to 0 as parse
\* returns the Program
C25_SinglePass ==
  /\ []( (OnFresh /\ par_pc \in {"parsing", "parsed", "failed"}) =>
          /\ consumed = FirstIndexes(Len(consumed))
          /\ par_pc # "parsed" => m_index = Len(consumed)
          /\ par_pc = "parsed" =>
               /\ consumed = FirstIndexes(Len(m_tokens))
               /\ m_index = 0
          /\ par_pc = "failed" =>
               LET seen == SubSeq(m_tokens, 1, Min(m_index + 1, Len(m_tokens)))
               IN /\ ~Parser_parse(seen).ok
                  /\ Parser_parse(seen).error = par_result[1].error )
  /\ [][ InParse =>
          /\ Len(consumed') >= Len(consumed)
          /\ SubSeq(consumed', 1, Len(consumed)) = consumed
          /\ par_pc' # "parsed" => m_index' = m_index + (Len(consumed') - Len(consumed))
          /\ par_pc' = "parsed" => consumed' = consumed /\ m_index = Len(m_tokens) ]_vars

\* parse returned a Program of two functions: every token was consumed once
\* and the cursor is back at 0
C25_Witness ==
  /\ OnFresh
  /\ par_pc = "parsed"
  /\ Len(program) = 2
  /\ m_index = 0
  /\ consumed = FirstIndexes(Len(m_tokens))

(***************************************************************************)
(* The two lexers                                                           *)
(***************************************************************************)
\* the kinds and literal texts of a token sequence
KindsAndTexts(toks) == [k \in 1..Len(toks) |-> [type |-> toks[k].type, value |-> toks[k].value]]

\* C26: on every source the Lexer and the Tokenizer both fail, or both
\* succeed with the same sequence of token kinds and literal texts
C26_LexersAgree ==
  lex_pc \in {"returned", "failed"} =>
    LET other == Tokenizer_tokenize(Tokenizer(m_src))
    IN /\ other.ok <=> lex_pc = "returned"
       /\ other.ok => KindsAndTexts(other.value) = KindsAndTexts(tokens)

(***************************************************************************)
(* Integer literals                                                         *)
(***************************************************************************)
\* the literal of the file ReturnOf(literal)
LiteralOf(source) == SubSeq(source, Len(ReturnOf(<<>>)) - 1, Len(source) - 2)

\* a run of digits denotes more than 2^31 - 1: without its leading zeros it
\* is longer than 2147483647, or as long and greater at the first difference
ExceedsInt(text) ==
  LET s == StripZeros(text)
      top == to_string(I32Max)
  IN \/ Len(s) > Len(top)
     \/ /\ Len(s) = Len(top)
        /\ \E k \in 1..Len(s) :
             /\ DigitValue(s[k]) > DigitValue(top[k])
             /\ \A j \in 1..(k - 1) : s[j] = top[j]

Lowered == Len(main_trace) >= 5

\* C27: a literal (a run of digits the lexer makes one int_lit token of) of
\* at most 2^31 - 1 is lowered to the 32-bit constant of its decimal value;
\* for a greater one lowering returns neither a constant nor an error value
\* but throws, and main ends the run as failed without writing out.ll
C27_LiteralLowering ==
  (main_pc # "absent" /\ Lowered) =>
    LET text == LiteralOf(main_file[1])
        lexed == IntLitParser_parse(text, 0, 1, 1)
        result == generate(ProgramOf(main_file[1]).value)
    IN /\ IntLitParser_matches(text, 0)
       /\ lexed.token.type = "int_lit" /\ lexed.token.value = <<text>>
       /\ IF ExceedsInt(text)
            THEN /\ ~main_trace[5].ok
                 /\ result.threw /\ ~result.ok
                 /\ main_pc = "exited" /\ main_exit = <<1>> /\ out_ll = <<>>
            ELSE /\ main_trace[5].ok
                 /\ result.ok
                 /\ result.cg.module.functions[1].entry[1].op = "ret"
                 /\ LET v == result.cg.module.functions[1].entry[1].operands[1]
                    IN /\ v.kind = "const"
                       /\ v.n >= 0 /\ v.n <= I32Max
                       /\ to_string(v.n) = StripZeros(text)
                 /\ main_pc = "write" => main_value = result.cg.module

\* 002147483648 made main fail at the lower stage
C27_Witness ==
  /\ main_pc = "exited"
  /\ Len(main_trace) = 5
  /\ main_file[1] = ReturnOf(<<"0","0","2","1","4","7","4","8","3","6","4","8">>)
  /\ main_exit = <<1>>

(***************************************************************************)
(* Lexer: termination and coverage                                          *)
(***************************************************************************)
\* the characters a token was made of
LexemeOf(token) ==
  IF token.value # <<>> THEN token.value[1]
  ELSE CASE token.type = "ret" -> <<"r","e","t","u","r","n">>
         [] token.type = "print" -> <<"p","r","i","n","t">>
         [] token.type = "let" -> <<"l","e","t">>
         [] token.type = "fn" -> <<"f","n">>
         [] token.type = "open_paren" -> <<"(">>
         [] token.type = "close_paren" -> <<")">>
         [] token.type = "open_curly" -> <<"{">>
         [] token.type = "close_curly" -> <<"}">>
         [] token.type = "plus" -> <<"+">>
         [] token.type = "minus" -> <<"-">>
         [] token.type = "star" -> <<"*">>
         [] token.type = "fslash" -> <<"/">>
         [] token.type = "eq" -> <<"=">>
         [] token.type = "semi" -> <<";">>

\* the tokens whose characters include position p (0-based)
OwnersOf(p) ==
  { k \in 1..Len(tokens) : starts[k] <= p /\ p < starts[k] + Len(LexemeOf(tokens[k])) }

\* every character is a blank that no token holds, or belongs to one token
EveryCharacterOnce ==
  /\ index = Len(m_src)
  /\ \A k \in 1..Len(tokens) :
       SubSeq(m_src, starts[k] + 1, starts[k] + Len(LexemeOf(tokens[k]))) = LexemeOf(tokens[k])
  /\ \A p \in 0..(Len(m_src) - 1) :
       IF isspace(At(m_src, p)) THEN OwnersOf(p) = {} ELSE Cardinality(OwnersOf(p)) = 1

\* C28: tokenize terminates on every source: each iteration returns an
\* error or advances the cursor by at least one character, the cursor never
\* moves backwards, and on success every character was consumed exactly
\* once, as a blank or as part of exactly one token
C28_Terminates ==
  /\ <>(lex_pc \in {"returned", "failed"})
  /\ [][ lex_pc = "loop" =>
          \/ lex_pc' = "failed"
          \/ lex_pc' = "loop" /\ index' > index
          \/ lex_pc' = "returned" /\ index >= Len(m_src) /\ index' = index ]_vars
  /\ [][index' >= index]_vars
  /\ [](lex_pc = "returned" => EveryCharacterOnce)

\* tokenize returned for a source of tokens and blanks
C28_Witness ==
  /\ lex_pc = "returned"
  /\ Len(tokens) >= 2
  /\ \E p \in 0..(Len(m_src) - 1) : isspace(At(m_src, p))
  /\ \E k \in 1..Len(tokens) : Len(LexemeOf(tokens[k])) > 1

(***************************************************************************)
(* C29: a recognizer that matches also parses                              *)
(***************************************************************************)
\* the registry positions whose recognizer matches at offset i of the source
Matching(source, i) ==
  { k \in 1..Len(create_parsers) : matches(create_parsers[k], source, i) }

\* the first of a non-empty set of registry positions
FirstOf(ks) == CHOOSE k \in ks : \A j \in ks : k <= j

\* at offset i every matching recognizer parses, and parse_next_token
\* returns the parse of the first matching one without a fallback
NoFallbackAt(source, i, ln, col) ==
  LET r  == parse_next_token(source, i, ln, col)
      ks == Matching(source, i)
  IN /\ \A k \in ks :
          LET p == parse_token(create_parsers[k], source, i, ln, col)
          IN p.ok /\ p.index > i
     /\ r.fallbacks = 0
     /\ r.ok <=> ks # {}
     /\ ks # {} =>
          LET p == parse_token(create_parsers[FirstOf(ks)], source, i, ln, col)
          IN r.token = p.token /\ r.index = p.index

\* C29: at every source position a recognizer whose matches predicate is
\* true parses successfully, so the first matching recognizer in registry
\* order produces the token and the fallback to the next recognizer after a
\* failed parse is never taken.
C29_MatchImpliesParse ==
  \A i \in 0..(Len(m_src) - 1) : NoFallbackAt(m_src, i, line, column)

\* a keyword's letters run on into an identifier: the keyword recognizer,
\* first in the registry, does not match and the identifier recognizer
\* produced the token; a single character was lexed too
C29_Witness ==
  /\ lex_pc = "returned"
  /\ \E n \in 1..Len(tokens) :
       /\ tokens[n].type = "ident"
       /\ Len(tokens[n].value[1]) > 1
       /\ KeywordPrefix(m_src, <<"l","e","t">>, 1, starts[n]) = 3
  /\ \E n \in 1..Len(tokens) : tokens[n].type = "fslash"

====
